---- MODULE Spec2Model ----
\* State-machine model of the may-clack prompts: the builder configuration
\* of each prompt, mk_less and the interact() key loop of select and
\* multi-select with their paged ("less") and non-paged navigation, the key
\* loop of confirm, and the line loop of text input and multi-line input.
EXTENDS Integers, Sequences, FiniteSets, TLC

\* ------------------------------------------------------------------ bounds
\* largest number of options a caller pushes
MaxOpts == 5
\* largest argument handed to less_amt / less_max (0 is included: it panics)
MaxAmt == 3
\* largest terminal row count reported by the size probe
MaxRows == 7
\* smallest terminal row count reported by the size probe
MinRows == 3
\* longest run of consecutive Down keys the run counter tracks
MaxRun == 3
\* most keys of one interaction whose sequence is recorded
MaxKeys == 5
\* most options of a prompt whose key sequence is recorded
MaxKeyOpts == 3
\* most directional keys of one confirm interaction that are counted
MaxFlips == 3
\* most lines one text-input interaction reads
MaxReads == 4
MaxAgainKeys == 3
\* largest argument handed to min() / max() of multi-line input
MaxLim == 2
\* widest terminal, longest label and longest hint of the painted option rows
MaxColumns == 12
MaxLabel == 4
MaxHint == 2
\* width of the terminal the interactions run in: it holds every label
WideColumns == 80
\* most lines of earlier output above the row a prompt starts on
MaxBefore == 1
\* columns of a line of earlier output
OutCols == 3
\* columns of the message handed to a prompt
MessageCols == 7
\* most rows between the first row of a prompt and the last row of the
\* terminal for which navigation keys are followed (a frame taller than
\* the terminal scrolls on every paged repaint, without end)
MaxDepth == 9

\* ------------------------------------------------------- program constants
\* rows reserved for the prompt chrome in mk_less
CHROME == 4
\* u16 modulus
U16 == 65536
\* columns Opt::trunc of select keeps free of the label
SELECT_PAD == 5
\* columns Opt::trunc of multi-select keeps free besides the checkbox
MULTI_SELECT_PAD == 4
\* bytes the line writer of stdout holds back before a write must go out
STDOUT_BUF == 1024

\* Option<T>: None is the empty sequence, Some(x) the one-element sequence
None == <<>>
Some(x) == <<x>>
IsSome(o) == o # <<>>
Unwrap(o) == o[1]

\* values and labels handed to option(), in push order
OptValues == <<"a", "b", "c", "d", "e", "f", "g">>
OptLabels == <<"Alpha", "Beta", "Gamma", "Delta", "Epsilon", "Zeta", "Eta">>

\* the heights of the terminals the key prompts run on
Heights == MinRows..MaxRows
\* results of crossterm::terminal::size() on a terminal of `rows` rows: Err,
\* or Ok with the row count
TermSizes(rows) == {None, Some(rows)}
\* the probe has not been asked (no row count is negative)
Unasked == <<-1>>

VARIABLES
    kind,        \* which prompt is being driven: "select", "multi_select",
                 \* "confirm", "input" or "multi_input"
    less,        \* Select.less / MultiSelect.less
    less_amt,    \* Option<u16>
    less_max,    \* Option<u16>
    cancel,      \* whether a cancel callback is configured
    options,     \* the configured Vec<Opt>
    term,        \* what terminal::size() answered to mk_less, if it was asked
    pc,          \* "config", "active", "done", "panicked"
    is_less,     \* interact(): the Option<u16> returned by mk_less
    idx,         \* interact(): focus index
    less_idx,    \* interact(): row of the focus inside the window
    opts,        \* interact(): multi-select's clone of the options
    raw,         \* terminal raw mode is enabled
    cancel_calls,\* number of times the cancel callback has run
    result,      \* what interact() returned (None while it has not)
    tty,         \* the terminal: its height, every row written so far, the
                 \* cursor row, the bytes stdout holds back, and a panic flag
    last,        \* history: the last key handled and the state it acted on
    run_start,   \* history: focus index at the start of the current Down run
    run_len,     \* history: number of consecutive Down keys in the run
    keys,        \* history: the keys handled so far, when they are recorded
    tracing,     \* history: whether the key sequence is recorded
    stdout_ok,   \* environment: writes to stdout succeed
    first,       \* history: Some(outcome of the first interact()) during a second one
    columns,     \* environment: the width terminal::size() answers to Opt::trunc
    unicode,     \* environment: style::IS_UNICODE
    initial_value, \* Confirm.initial_value (bool), Input.initial_value (Option)
    prompts,     \* Confirm.prompts
    val,         \* Confirm::interact(): the current boolean
    hidden,      \* the terminal cursor is hidden
    flips,       \* history: directional keys confirm has handled
    validate,    \* Input.validate / MultiInput.validate is configured
    min_lines,   \* MultiInput.min
    max_lines,   \* MultiInput.max
    entry,       \* which entry point of Input / MultiInput is running
    prefill,     \* interact_once(): the local initial_value of the next read
    is_val,      \* interact_once(): helper.is_val
    accepted,    \* MultiInput: the vector v of accepted lines
    reads,       \* history: the lines read so far
    default_value, \* Input.default_value: the value an empty line falls back to
    calls        \* history: the validator and parser invocations so far

cfgVars == <<kind, less, less_amt, less_max, cancel, options>>
navVars == <<term, is_less, idx, less_idx, opts>>
outVars == <<raw, cancel_calls, result, tty>>
\* the history, and the environment flags no handler writes
histVars == <<last, run_start, run_len, keys, tracing, stdout_ok, first, columns,
              unicode>>
confirmVars == <<initial_value, prompts, val, hidden, flips>>
inputVars == <<validate, min_lines, max_lines, entry, prefill, is_val, accepted, reads,
               default_value, calls>>
promptVars == <<confirmVars, inputVars>>
vars == <<cfgVars, pc, navVars, outVars, histVars, promptVars>>

\* ------------------------------------------------------------ arithmetic
\* u16::saturating_sub
SatSub(a, b) == IF a >= b THEN a - b ELSE 0
\* `as u16`
AsU16(n) == n % U16
Min(a, b) == IF a <= b THEN a ELSE b
Max(a, b) == IF a >= b THEN a ELSE b

\* -------------------------------------------------------------- terminal
\* The terminal has `rows` rows.  scr holds every row written since the
\* program started, the rows that have scrolled off the top included: the
\* rows top..top+rows-1 are the ones on the terminal, and row numbers never
\* change.  cur is the cursor's row, org the row the running prompt started
\* on.  A cell is a tuple whose head names what the row shows; a row
\* written without CLEAR_LINE over a wider one keeps the end of the old
\* row.  buf counts the bytes stdout holds back while its writes fail; clr
\* says that stdout holds back a CLEAR_LINE written by print! after the
\* last line feed and not flushed.

\* a terminal of `rows` rows on which `before` lines of output were printed
\* before the prompt
Canvas(rows, before) ==
    LET b == Min(before, rows - 1)
    IN [cur |-> b, top |-> 0, rows |-> rows, org |-> b,
        scr |-> [r \in 0..(rows - 1) |-> IF r < b THEN <<"out">> ELSE <<"blank">>],
        buf |-> 0, clr |-> FALSE, ok |-> TRUE]

\* the last row of the terminal
Bot(T) == T.top + T.rows - 1

\* print!(CLEAR_LINE) with no line feed and no flush() after it: the bytes
\* stay in the line writer of stdout and the row stays as it is
Held(T) == IF ~T.ok THEN T ELSE [T EXCEPT !.clr = TRUE]

\* the next line written to stdout takes the held-back CLEAR_LINE with it:
\* the row the cursor is on is cleared
Flushed(T) ==
    IF T.ok /\ T.clr
    THEN [T EXCEPT !.scr[T.cur] = <<"blank">>, !.clr = FALSE]
    ELSE T

\* a prompt starts to paint where the cursor is; its first println! sends
\* what stdout held back
Begin(T) == [Flushed(T) EXCEPT !.org = T.cur]

\* what a terminal does with a cursor-move parameter: 0 selects the default 1
MoveParam(n) == IF n = 0 THEN 1 ELSE n

\* cursor::MoveUp / cursor::MoveToPreviousLine: the cursor stops at the
\* first row of the terminal
CursorUp(T, n) ==
    IF ~T.ok THEN T ELSE [T EXCEPT !.cur = Max(T.top, T.cur - MoveParam(n))]

\* cursor::MoveDown / cursor::MoveToNextLine: the cursor stops at the last
\* row of the terminal
CursorDown(T, n) ==
    IF ~T.ok THEN T ELSE [T EXCEPT !.cur = Min(Bot(T), T.cur + MoveParam(n))]

\* print!(CLEAR_LINE) followed by print!(row)
Put(T, cell) ==
    IF ~T.ok THEN T ELSE [T EXCEPT !.scr[T.cur] = cell]

\* the line feed of println!: the cursor goes down; on the last row the
\* terminal scrolls, its first row leaves it and an empty row appears below
NewLine(T) ==
    IF ~T.ok THEN T
    ELSE IF T.cur < Bot(T)
         THEN [T EXCEPT !.cur = T.cur + 1]
         ELSE [T EXCEPT !.cur = T.cur + 1,
                        !.top = T.top + 1,
                        !.scr = [r \in 0..(T.cur + 1) |->
                                   IF r <= T.cur THEN T.scr[r] ELSE <<"blank">>]]

\* print!(CLEAR_LINE) followed by println!(row)
PrintLn(T, cell) == NewLine(Put(T, cell))

\* a failed expect()/unwrap() or an arithmetic overflow
Abort(T) == [T EXCEPT !.ok = FALSE]

\* a repaint of n bytes made of execute!, print! and flush() only.  While
\* stdout fails nothing reaches the terminal: flush() fails and its error
\* is discarded (`let _ =`), the bytes stay in the buffer of stdout, and
\* print! panics as soon as they no longer fit
Buffered(T0, T, n) ==
    IF stdout_ok THEN T
    ELSE IF T0.buf + n > STDOUT_BUF THEN Abort(T0)
         ELSE [T0 EXCEPT !.buf = T0.buf + n]

\* a repaint that goes through println!: it panics when stdout fails
Printed(T0, T) == IF stdout_ok THEN T ELSE Abort(T0)

\* decimal digits of n, most significant first (usize::to_string)
RECURSIVE Digits(_)
Digits(n) == IF n < 10 THEN <<n>> ELSE Append(Digits(n \div 10), n % 10)

\* {:0w$}: left-pad a digit string with zeros up to width w
RECURSIVE ZeroPad(_, _)
ZeroPad(d, w) == IF Len(d) >= w THEN d ELSE ZeroPad(<<0>> \o d, w)

\* mutant of ProgressCell: the zero-based index is printed
ProgressCell_ZeroBased(i, max) ==
    <<"progress", ZeroPad(Digits(i), Len(Digits(max))), Digits(max)>>

\* the progress line of draw_less: "......... (cur/total)"
ProgressCell(i, max) ==
    <<"progress", ZeroPad(Digits(i + 1), Len(Digits(max))), Digits(max)>>

\* ------------------------------------------------- the bytes of a repaint
\* the bytes of a label or of a prompt of confirm (str::len of ASCII text)
StrBytes(t) == Len(t)

\* the bytes of BAR, RADIO_ACTIVE and RADIO_INACTIVE: a character of three
\* bytes with unicode, an ASCII character without
GlyphBytes(uni) == IF uni THEN 3 ELSE 1

\* the bytes of cursor::MoveUp(n) / cursor::MoveDown(n): ESC [ n A
MoveBytes(n) == 2 + Len(Digits(n)) + 1

\* the bytes draw() writes for a line of n bytes: MoveToColumn(0) (ESC [ 1 G),
\* CLEAR_LINE, the bar in cyan (five bytes before and five after the
\* glyph), two spaces, the line
DrawBytes(n, uni) == 4 + 4 + (10 + GlyphBytes(uni)) + 2 + n

\* Opt::focus of select: the radio in green, a space, the label
SelectFocusBytes(o, uni) == (10 + GlyphBytes(uni)) + 1 + StrBytes(o.label)

\* Opt::unfocus of select: the radio dimmed (four bytes before and four
\* after), a space, the label dimmed
SelectUnfocusBytes(o, uni) ==
    (8 + GlyphBytes(uni)) + 1 + (8 + StrBytes(o.label))

\* Opt::focus of multi-select: the checkbox (three bytes with and without
\* unicode) in green or cyan, a space, the label
MultiSelectFocusBytes(o) == (10 + 3) + 1 + StrBytes(o.label)

\* Opt::unfocus of multi-select: the checkbox in green or dimmed, a space,
\* the label dimmed
MultiSelectUnfocusBytes(o) ==
    ((IF o.active THEN 10 ELSE 8) + 3) + 1 + (8 + StrBytes(o.label))

\* ------------------------------------------------- the columns of a row
\* the columns of a radio or checkbox glyph: one, or the three of an ASCII
\* checkbox
GlyphCols(g) ==
    IF g \in {"CHECKBOX_ACTIVE", "CHECKBOX_SELECTED", "CHECKBOX_INACTIVE"} /\ ~unicode
    THEN 3 ELSE 1

\* the columns of texts joined by ", "
RECURSIVE JoinCols(_)
JoinCols(ts) ==
    IF Len(ts) = 0 THEN 0
    ELSE IF Len(ts) = 1 THEN Len(ts[1])
         ELSE Len(ts[1]) + 2 + JoinCols(Tail(ts))

\* the columns of the hint of an option row: a space and the hint in
\* parentheses
HintCols(cell) ==
    IF Len(cell) >= 5 /\ cell[5] # <<>> THEN Len(cell[5][1]) + 3 ELSE 0

\* the columns a row of a frame takes: the glyph in the first column and,
\* when text follows, two spaces and the text.  A piece is one terminal row
\* of a row that is wider than the terminal
RECURSIVE Cols(_)
Cols(cell) ==
    CASE cell[1] = "blank" -> 0
      [] cell[1] = "out" -> OutCols
      [] cell[1] \in {"bar", "end"} -> IF Len(cell) = 1 THEN 1 ELSE 3 + Len(cell[2])
      [] cell[1] = "header" -> 3 + MessageCols
      [] cell[1] = "opt" -> 3 + GlyphCols(cell[3]) + 1 + Len(cell[2]) + HintCols(cell)
      [] cell[1] = "piece" ->
            IF Cols(cell[2]) - cell[3] * cell[4] < cell[4]
            THEN Cols(cell[2]) - cell[3] * cell[4] ELSE cell[4]
      [] cell[1] = "progress" -> 3 + 9 + 2 + Len(cell[2]) + 1 + Len(cell[3]) + 1
      [] cell[1] = "answer" -> 3 + JoinCols(cell[3])
      [] cell[1] = "radio" -> 3 + (2 + Len(cell[3])) + 3 + (2 + Len(cell[5]))
      [] cell[1] = "over" -> Cols(cell[3])

\* a row printed over a row without CLEAR_LINE: the columns of the old row
\* to the right of the new text stay (<<"over", new, old>>).  A bare glyph
\* over a bar or end row with text takes the place of its glyph, and a bar
\* over a row that starts with the bar leaves the row as it is
Overlay(new, old) ==
    IF Cols(old) <= Cols(new) THEN new
    ELSE IF Len(new) = 1 /\ old[1] \in {"bar", "end"}
         THEN <<new[1], old[2]>>
         ELSE IF Len(new) = 1 /\ new[1] = "bar"
                 /\ old[1] \in {"opt", "progress", "answer", "radio"}
              THEN old
              ELSE IF old[1] = "over" /\ Cols(new) >= Cols(old[2])
                   THEN <<"over", new, old[3]>>
                   ELSE <<"over", new, old>>

\* print!(row) with no CLEAR_LINE before it
Stamp(T, cell) ==
    IF ~T.ok THEN T ELSE [T EXCEPT !.scr[T.cur] = Overlay(cell, T.scr[T.cur])]

\* println!(row) with no CLEAR_LINE before it
StampLn(T, cell) == NewLine(Stamp(T, cell))

\* the k-th terminal row of a row written on a terminal of c columns
Piece(cell, k, c) == <<"piece", cell, k, c>>

\* the rest of a row from its k-th piece on: when a terminal row is full the
\* text goes on in the next row, and the terminal scrolls on its last row
RECURSIVE WrapFrom(_, _, _, _)
WrapFrom(T, cell, k, c) ==
    IF k * c >= Cols(cell) THEN T
    ELSE WrapFrom(Stamp(NewLine(T), Piece(cell, k, c)), cell, k + 1, c)

\* print!(CLEAR_LINE) followed by print!(row) on a terminal of c columns: a
\* row of more than c columns runs on into the rows below, and the cursor
\* ends in the row of its last piece
PutWrapped(T, cell, c) ==
    IF Cols(cell) <= c THEN Put(T, cell)
    ELSE WrapFrom(Put(T, Piece(cell, 0, c)), cell, 1, c)

\* ------------------------------------------------------------- builders
NewOpt(i) == [value |-> OptValues[i], label |-> OptLabels[i], active |-> FALSE]

\* the prompts of the crate
Kinds == {"select", "multi_select", "confirm", "input", "multi_input"}
\* the prompts that hold a list of options
ListKinds == {"select", "multi_select"}

\* the terminals a prompt starts on: every height, the cursor below the
\* output printed before
Terminals == {Canvas(h, b) : h \in Heights, b \in 0..MaxBefore}
\* the terminals with nothing printed before the prompt
EmptyTerminals == {Canvas(h, 0) : h \in Heights}
\* the shortest terminal, empty, and the tallest one below earlier output
EdgeTerminals == {Canvas(MinRows, 0), Canvas(MaxRows, MaxBefore)}
\* the terminals a prompt of kind k starts on when every builder call is
\* followed: all of them for select, the tallest one for multi-select (its
\* toggles multiply every terminal), the empty ones for the others
StartTerminals(k) ==
    CASE k = "select" -> Terminals
      [] k = "multi_select" -> {Canvas(MaxRows, MaxBefore)}
      [] OTHER -> EmptyTerminals

\* nothing has run yet: the locals of the entry points, the result and the
\* history
Fresh ==
    /\ term = Unasked
    /\ pc = "config"
    /\ is_less = None
    /\ idx = 0
    /\ less_idx = 0
    /\ opts = <<>>
    /\ raw = FALSE
    /\ cancel_calls = 0
    /\ result = None
    /\ last = [key |-> "none", idx |-> 0, less_idx |-> 0]
    /\ run_start = 0
    /\ run_len = 0
    /\ keys = <<>>
    /\ stdout_ok = TRUE
    /\ first = None
    /\ val = FALSE
    /\ hidden = FALSE
    /\ flips = 0
    /\ entry = "none"
    /\ prefill = None
    /\ is_val = FALSE
    /\ accepted = <<>>
    /\ reads = <<>>
    /\ calls = <<>>

\* Select::new, MultiSelect::new, Confirm::new, Input::new, MultiInput::new
Init ==
    /\ kind \in Kinds
    /\ tracing = FALSE
    /\ less = FALSE
    /\ less_amt = None
    /\ less_max = None
    /\ cancel = FALSE
    /\ options = <<>>
    /\ initial_value = (IF kind = "confirm" THEN FALSE ELSE None)
    /\ prompts = <<"yes", "no">>
    /\ validate = FALSE
    /\ default_value = None
    /\ min_lines = 1
    /\ max_lines = U16 - 1
    /\ columns = Some(WideColumns)
    /\ unicode = TRUE
    /\ tty \in StartTerminals(kind)
    /\ Fresh

\* a panic unwinds out of the builder or of interact(): nothing is returned
Panic ==
    /\ pc' = "panicked"
    /\ UNCHANGED result

\* option(): push one more option
Option ==
    /\ pc = "config"
    /\ kind \in ListKinds
    /\ Len(options) < MaxOpts
    /\ options' = Append(options, NewOpt(Len(options) + 1))
    /\ UNCHANGED <<kind, less, less_amt, less_max, cancel, pc, navVars, outVars, histVars>>
    /\ UNCHANGED promptVars

\* options(): the list is replaced by the one handed in
Options ==
    /\ pc = "config"
    /\ kind \in ListKinds
    /\ \E n \in 0..MaxOpts :
        /\ n # Len(options)
        /\ options' = [i \in 1..n |-> NewOpt(i)]
    /\ UNCHANGED <<kind, less, less_amt, less_max, cancel, pc, navVars, outVars, histVars>>
    /\ UNCHANGED promptVars

\* less()
Less ==
    /\ pc = "config"
    /\ kind \in ListKinds
    /\ less = FALSE
    /\ less' = TRUE
    /\ UNCHANGED <<kind, less_amt, less_max, cancel, options, pc, navVars, outVars, histVars>>
    /\ UNCHANGED promptVars

\* cancel(f)
Cancel ==
    /\ pc = "config"
    /\ cancel = FALSE
    /\ cancel' = TRUE
    /\ UNCHANGED <<kind, less, less_amt, less_max, options, pc, navVars, outVars, histVars>>
    /\ UNCHANGED promptVars

\* Select::less_max(max)
SelectLessMax ==
    /\ pc = "config"
    /\ kind = "select"
    /\ \E max \in 0..MaxAmt :
        IF max > 0 /\ less_amt = None
        THEN /\ less' = TRUE
             /\ less_max' = Some(max)
             /\ UNCHANGED <<pc, result>>
        ELSE /\ Panic
             /\ UNCHANGED <<less, less_max>>
    /\ UNCHANGED <<kind, less_amt, cancel, options, navVars, raw, cancel_calls, tty, histVars>>
    /\ UNCHANGED promptVars

\* mutant of SelectLessAmt: the second assertion looks at less_amt
SelectLessAmt_ChecksItself ==
    /\ pc = "config"
    /\ kind = "select"
    /\ \E n \in 0..MaxAmt :
        IF n > 0 /\ less_amt = None
        THEN /\ less' = TRUE
             /\ less_amt' = Some(n)
             /\ UNCHANGED <<pc, result>>
        ELSE /\ Panic
             /\ UNCHANGED <<less, less_amt>>
    /\ UNCHANGED <<kind, less_max, cancel, options, navVars, raw, cancel_calls, tty, histVars>>
    /\ UNCHANGED promptVars

\* Select::less_amt(less)
SelectLessAmt ==
    /\ pc = "config"
    /\ kind = "select"
    /\ \E n \in 0..MaxAmt :
        IF n > 0 /\ less_max = None
        THEN /\ less' = TRUE
             /\ less_amt' = Some(n)
             /\ UNCHANGED <<pc, result>>
        ELSE /\ Panic
             /\ UNCHANGED <<less, less_amt>>
    /\ UNCHANGED <<kind, less_max, cancel, options, navVars, raw, cancel_calls, tty, histVars>>
    /\ UNCHANGED promptVars

\* MultiSelect::less_max(max)
MultiSelectLessMax ==
    /\ pc = "config"
    /\ kind = "multi_select"
    /\ \E max \in 0..MaxAmt :
        IF max > 0 /\ less_amt = None
        THEN /\ less' = TRUE
             /\ less_max' = Some(max)
             /\ UNCHANGED <<pc, result>>
        ELSE /\ Panic
             /\ UNCHANGED <<less, less_max>>
    /\ UNCHANGED <<kind, less_amt, cancel, options, navVars, raw, cancel_calls, tty, histVars>>
    /\ UNCHANGED promptVars

\* MultiSelect::less_amt(less): the second assertion looks at less_amt
MultiSelectLessAmt ==
    /\ pc = "config"
    /\ kind = "multi_select"
    /\ \E n \in 0..MaxAmt :
        IF n > 0 /\ less_amt = None
        THEN /\ less' = TRUE
             /\ less_amt' = Some(n)
             /\ UNCHANGED <<pc, result>>
        ELSE /\ Panic
             /\ UNCHANGED <<less, less_amt>>
    /\ UNCHANGED <<kind, less_max, cancel, options, navVars, raw, cancel_calls, tty, histVars>>
    /\ UNCHANGED promptVars

\* ---------------------------------------------------------------- mk_less
\* mutant of DerivedRows: less_max is ignored
DerivedRows_NoCap(rows, lmax) == SatSub(rows, CHROME)

\* the row budget mk_less derives from the terminal: rows - 4, capped
DerivedRows(rows, lmax) ==
    LET r == SatSub(rows, CHROME)
    IN IF IsSome(lmax) THEN Min(r, Unwrap(lmax)) ELSE r

\* mutant of SelectMkLess: paging already when len equals the amount
SelectMkLess_AtLeast(l, amt, lmax, len, size) ==
    IF ~l THEN None
    ELSE IF IsSome(amt)
         THEN IF len >= Unwrap(amt) THEN amt ELSE None
         ELSE IF IsSome(size)
              THEN LET rows == DerivedRows(Unwrap(size), lmax)
                   IN IF rows > 0 /\ len >= rows THEN Some(rows) ELSE None
              ELSE None

\* mutant of SelectMkLess: a derived row budget of 0 is not filtered out
SelectMkLess_ZeroRows(l, amt, lmax, len, size) ==
    IF ~l THEN None
    ELSE IF IsSome(amt)
         THEN IF len > Unwrap(amt) THEN amt ELSE None
         ELSE IF IsSome(size)
              THEN LET rows == DerivedRows(Unwrap(size), lmax)
                   IN IF len > rows THEN Some(rows) ELSE None
              ELSE None

\* Select::mk_less
SelectMkLess(l, amt, lmax, len, size) ==
    IF ~l THEN None
    ELSE IF IsSome(amt)
         THEN IF len > Unwrap(amt) THEN amt ELSE None
         ELSE IF IsSome(size)
              THEN LET rows == DerivedRows(Unwrap(size), lmax)
                   IN IF rows > 0 /\ len > rows THEN Some(rows) ELSE None
              ELSE None

\* MultiSelect::mk_less
MultiSelectMkLess(l, amt, lmax, len, size) ==
    IF ~l THEN None
    ELSE IF IsSome(amt)
         THEN IF len > Unwrap(amt) THEN amt ELSE None
         ELSE IF IsSome(size)
              THEN LET rows == DerivedRows(Unwrap(size), lmax)
                   IN IF rows > 0 /\ len > rows THEN Some(rows) ELSE None
              ELSE None

\* whether mk_less reaches its call of terminal::size()
AsksSize(l, amt) == l /\ ~IsSome(amt)


\* ---------------------------------------------------- history bookkeeping
\* during a second interact() the user presses the keys of the first one
Replayed(key) ==
    /\ Len(keys) < Len(Unwrap(first).keys)
    /\ key = Unwrap(first).keys[Len(keys) + 1]

\* records the key just handled, the state it acted on, and the Down run
Hist(key) ==
    /\ last' = [key |-> key, idx |-> idx, less_idx |-> less_idx]
    /\ IF key = "Down"
       THEN IF run_len > 0 /\ run_len < MaxRun
            THEN /\ run_len' = run_len + 1
                 /\ UNCHANGED run_start
            ELSE /\ run_len' = 1
                 /\ run_start' = idx
       ELSE /\ run_len' = 0
            /\ run_start' = idx'
    /\ tracing => Len(keys) < MaxKeys
    /\ IsSome(first) => Replayed(key)
    /\ keys' = IF tracing THEN Append(keys, key) ELSE keys
    /\ UNCHANGED <<tracing, stdout_ok, first, columns, unicode>>

\* ------------------------------------------------------- Select: painting
\* Opt::focus / Opt::unfocus of select
SelectFocusCell(os, i) == <<"opt", os[i + 1].label, "RADIO_ACTIVE", "focus">>
SelectUnfocusCell(os, i) == <<"opt", os[i + 1].label, "RADIO_INACTIVE", "unfocus">>

\* Select::draw_focus
SelectDrawFocus(T, os, i) ==
    IF i >= 0 /\ i < Len(os) THEN Put(T, SelectFocusCell(os, i)) ELSE Abort(T)

\* Select::draw_unfocus
SelectDrawUnfocus(T, os, i) ==
    IF i >= 0 /\ i < Len(os) THEN Put(T, SelectUnfocusCell(os, i)) ELSE Abort(T)

\* the row loop of Select::draw_less: rows i..w-1 of the window
RECURSIVE SelectDrawRows(_, _, _, _, _, _)
SelectDrawRows(T, os, w, i, fidx, lidx) ==
    IF i >= w \/ ~T.ok THEN T
    ELSE LET i_idx == fidx + i - lidx
         IN IF fidx + i < lidx \/ i_idx >= Len(os)
            THEN Abort(T)
            ELSE SelectDrawRows(PrintLn(T, SelectUnfocusCell(os, i_idx)),
                                os, w, i + 1, fidx, lidx)

\* mutant of SelectDrawLess: the move down to the focus row is not guarded
SelectDrawLess_Unguarded(T, os, w, fidx, lidx, prev_less) ==
    LET T1 == IF prev_less > 0 THEN CursorUp(T, prev_less) ELSE T
        T2 == SelectDrawRows(T1, os, w, 0, fidx, lidx)
        T3 == PrintLn(T2, ProgressCell(fidx, Len(os)))
        T4 == CursorUp(T3, AsU16(w + 1))
        T5 == CursorDown(T4, lidx)
    IN SelectDrawFocus(T5, os, fidx)

\* Select::draw_less
SelectDrawLess(T, os, w, fidx, lidx, prev_less) ==
    LET T1 == IF prev_less > 0 THEN CursorUp(T, prev_less) ELSE T
        T2 == SelectDrawRows(T1, os, w, 0, fidx, lidx)
        T3 == PrintLn(T2, ProgressCell(fidx, Len(os)))
        T4 == CursorUp(T3, AsU16(w + 1))
        T5 == IF lidx > 0 THEN CursorDown(T4, lidx) ELSE T4
    IN SelectDrawFocus(T5, os, fidx)

\* println! of every option in its unfocused form (loop of w_init)
RECURSIVE SelectInitRows(_, _, _)
SelectInitRows(T, os, i) ==
    IF i >= Len(os) THEN T
    ELSE SelectInitRows(StampLn(T, SelectUnfocusCell(os, i)), os, i + 1)

\* n times println!(CLEAR_LINE)
RECURSIVE ClearRows(_, _)
ClearRows(T, n) == IF n <= 0 THEN T ELSE ClearRows(PrintLn(T, <<"blank">>), n - 1)

\* Select::w_init
SelectWInit(T, os) ==
    LET T1 == StampLn(T, <<"bar">>)
        T2 == StampLn(T1, <<"header", "STEP_ACTIVE">>)
        T3 == SelectInitRows(T2, os, 0)
        T4 == Stamp(T3, <<"end">>)
        T5 == CursorUp(T4, AsU16(Len(os)))
    IN SelectDrawFocus(T5, os, 0)

\* Select::w_init_less
SelectWInitLess(T, os, w) ==
    LET T1 == StampLn(T, <<"bar">>)
        T2 == StampLn(T1, <<"header", "STEP_ACTIVE">>)
        T3 == SelectDrawLess(T2, os, w, 0, 0, 0)
        T4 == CursorDown(T3, w)
        T5 == NewLine(T4)
        T6 == Stamp(T5, <<"end">>)
        T7 == CursorUp(T6, AsU16(w + 1))
    IN SelectDrawFocus(T7, os, 0)

\* the tail shared by Select::w_out and Select::w_cancel
SelectCollapse(T, os, i, mark, style) ==
    LET T1 == CursorUp(T, AsU16(AsU16(i) + 1))
        T2 == StampLn(T1, <<"header", mark>>)
        T3 == ClearRows(T2, Len(os))
        T4 == Put(T3, <<"blank">>)
        T5 == CursorUp(T4, AsU16(Len(os)))
    IN IF i >= 0 /\ i < Len(os)
       THEN StampLn(T5, <<"answer", style, <<os[i + 1].label>>>>)
       ELSE Abort(T5)

\* the tail shared by Select::w_out_less and Select::w_cancel_less
SelectCollapseLess(T, os, w, i, lidx, mark, style) ==
    LET T1 == IF lidx > 0 THEN CursorUp(T, AsU16(lidx + 1)) ELSE CursorUp(T, 1)
        T2 == StampLn(T1, <<"header", mark>>)
        T3 == ClearRows(T2, w)
        T4 == PrintLn(PrintLn(T3, <<"blank">>), <<"blank">>)
        T5 == CursorUp(T4, AsU16(w + 2))
    IN IF i >= 0 /\ i < Len(os)
       THEN StampLn(T5, <<"answer", style, <<os[i + 1].label>>>>)
       ELSE Abort(T5)

\* Select::w_out / Select::w_out_less
SelectWOut(T, os, i) == SelectCollapse(T, os, i, "STEP_SUBMIT", "dimmed")
SelectWOutLess(T, os, w, i, lidx) ==
    SelectCollapseLess(T, os, w, i, lidx, "STEP_SUBMIT", "dimmed")

\* Select::w_cancel / Select::w_cancel_less
SelectWCancel(T, os, i) == SelectCollapse(T, os, i, "STEP_CANCEL", "strikethrough")
SelectWCancelLess(T, os, w, i, lidx) ==
    SelectCollapseLess(T, os, w, i, lidx, "STEP_CANCEL", "strikethrough")

\* ----------------------------------------------------- Select: navigation
\* each step yields the new idx and less_idx; ok is FALSE when an unsigned
\* subtraction would go below zero

\* Up | Left, paged
SelectUpLess(w, max, i, lidx) ==
    IF i > 0
    THEN [idx |-> i - 1, less_idx |-> SatSub(lidx, 1), ok |-> TRUE]
    ELSE [idx |-> max - 1, less_idx |-> w - 1, ok |-> w >= 1]

\* Up | Left, not paged
SelectUp(max, i) == IF i > 0 THEN i - 1 ELSE max - 1

\* mutant of SelectDownLess: less_idx grows past the window's last row
SelectDownLess_AlwaysInc(w, max, i, lidx) ==
    IF i < max - 1
    THEN [idx |-> i + 1, less_idx |-> lidx + 1, ok |-> w >= 1]
    ELSE [idx |-> 0, less_idx |-> 0, ok |-> TRUE]

\* Down | Right, paged
SelectDownLess(w, max, i, lidx) ==
    IF i < max - 1
    THEN [idx |-> i + 1,
          less_idx |-> IF lidx < w - 1 THEN lidx + 1 ELSE lidx,
          ok |-> w >= 1]
    ELSE [idx |-> 0, less_idx |-> 0, ok |-> TRUE]

\* mutant of SelectDown: the focus stops at the last option
SelectDown_NoWrap(max, i) == IF i < max - 1 THEN i + 1 ELSE i

\* Down | Right, not paged
SelectDown(max, i) == IF i < max - 1 THEN i + 1 ELSE 0

\* mutant of SelectPageDown: the offset is kept after every jump
SelectPageDown_KeepOffset(w, max, i, lidx) ==
    IF i + w >= max - 1
    THEN [idx |-> max - 1, less_idx |-> w - 1, ok |-> w >= 1]
    ELSE [idx |-> i + w, less_idx |-> lidx, ok |-> w >= lidx]

\* PageDown
SelectPageDown(w, max, i, lidx) ==
    IF i + w >= max - 1
    THEN [idx |-> max - 1, less_idx |-> w - 1, ok |-> w >= 1]
    ELSE LET n == i + w
         IN IF w < lidx THEN [idx |-> n, less_idx |-> lidx, ok |-> FALSE]
            ELSE IF max - n < w - lidx
                 THEN [idx |-> n, less_idx |-> w - AsU16(max - n),
                       ok |-> w >= AsU16(max - n)]
                 ELSE [idx |-> n, less_idx |-> lidx, ok |-> TRUE]

\* mutant of SelectPageUp: the jump is one option short
SelectPageUp_ShortJump(w, max, i, lidx) ==
    IF i <= w
    THEN [idx |-> 0, less_idx |-> 0, ok |-> TRUE]
    ELSE [idx |-> i - w + 1, less_idx |-> Min(lidx, AsU16(i - w + 1)), ok |-> TRUE]

\* PageUp
SelectPageUp(w, max, i, lidx) ==
    IF i <= w
    THEN [idx |-> 0, less_idx |-> 0, ok |-> TRUE]
    ELSE [idx |-> i - w, less_idx |-> Min(lidx, AsU16(i - w)), ok |-> TRUE]


\* ------------------------------------------------------- Select::interact
\* the outcome of one navigation key: s is the step, T the repainted
\* terminal, n the bytes of a repaint made with draw() alone
NavStep(key, s, T, n) ==
    /\ LET W == IF IsSome(is_less) THEN Printed(tty, T) ELSE Buffered(tty, T, n)
       IN IF s.ok /\ W.ok
          THEN /\ Bot(W) - W.org <= MaxDepth
               /\ idx' = s.idx
               /\ less_idx' = s.less_idx
               /\ tty' = W
               /\ UNCHANGED <<pc, result>>
          ELSE /\ Panic
               /\ tty' = Abort(tty)
               /\ UNCHANGED <<idx, less_idx>>
    /\ Hist(key)
    /\ UNCHANGED <<cfgVars, term, is_less, opts, raw, cancel_calls>>
    /\ UNCHANGED promptVars

\* mutant of SelectInteract: raw mode is entered before the options are
\* looked at
SelectInteract_RawFirst ==
    /\ pc = "config"
    /\ kind = "select"
    /\ IF Len(options) = 0
       THEN /\ result' = <<"Err", "NoOptions">>
            /\ pc' = "done"
            /\ raw' = TRUE
            /\ UNCHANGED <<term, is_less, tty>>
       ELSE /\ term' \in (IF AsksSize(less, less_amt) THEN TermSizes(tty.rows) ELSE {Unasked})
            /\ is_less' = SelectMkLess(less, less_amt, less_max, Len(options), term')
            /\ LET T == Begin(tty)
               IN tty' = IF IsSome(is_less')
                         THEN SelectWInitLess(T, options, Unwrap(is_less'))
                         ELSE SelectWInit(T, options)
            /\ \E enabled \in BOOLEAN :
                IF enabled
                THEN /\ raw' = TRUE
                     /\ pc' = "active"
                     /\ UNCHANGED result
                ELSE /\ result' = <<"Err", "IoError">>
                     /\ pc' = "done"
                     /\ UNCHANGED raw
    /\ UNCHANGED <<cfgVars, idx, less_idx, opts, cancel_calls, histVars>>
    /\ UNCHANGED promptVars

\* interact() up to the first event::read()
SelectInteract ==
    /\ pc = "config"
    /\ kind = "select"
    /\ IF Len(options) = 0
       THEN /\ result' = <<"Err", "NoOptions">>
            /\ pc' = "done"
            /\ UNCHANGED <<term, is_less, tty, raw>>
       ELSE /\ term' \in (IF AsksSize(less, less_amt) THEN TermSizes(tty.rows) ELSE {Unasked})
            /\ is_less' = SelectMkLess(less, less_amt, less_max, Len(options), term')
            /\ LET T == Begin(tty)
               IN tty' = IF IsSome(is_less')
                         THEN SelectWInitLess(T, options, Unwrap(is_less'))
                         ELSE SelectWInit(T, options)
            /\ \E enabled \in BOOLEAN :
                IF enabled
                THEN /\ raw' = TRUE
                     /\ pc' = "active"
                     /\ UNCHANGED result
                ELSE /\ result' = <<"Err", "IoError">>
                     /\ pc' = "done"
                     /\ UNCHANGED raw
    /\ UNCHANGED <<cfgVars, idx, less_idx, opts, cancel_calls, histVars>>
    /\ UNCHANGED promptVars

\* (KeyCode::Up | KeyCode::Left, _)
SelectKeyUp ==
    /\ pc = "active"
    /\ kind = "select"
    /\ LET max == Len(options)
       IN IF IsSome(is_less)
          THEN LET w == Unwrap(is_less)
                   s == SelectUpLess(w, max, idx, less_idx)
               IN NavStep("Up", s,
                          SelectDrawLess(tty, options, w, s.idx, s.less_idx, less_idx), 0)
          ELSE LET T1 == SelectDrawUnfocus(tty, options, idx)
                   n == SelectUp(max, idx)
                   m == IF idx > 0 THEN 1 ELSE AsU16(AsU16(max) - 1)
                   T2 == IF idx > 0 THEN CursorUp(T1, m) ELSE CursorDown(T1, m)
               IN NavStep("Up", [idx |-> n, less_idx |-> less_idx, ok |-> TRUE],
                          SelectDrawFocus(T2, options, n),
                          DrawBytes(SelectUnfocusBytes(options[idx + 1], unicode), unicode) + MoveBytes(m)
                              + DrawBytes(SelectFocusBytes(options[n + 1], unicode), unicode))

\* (KeyCode::Down | KeyCode::Right, _)
SelectKeyDown ==
    /\ pc = "active"
    /\ kind = "select"
    /\ LET max == Len(options)
       IN IF IsSome(is_less)
          THEN LET w == Unwrap(is_less)
                   s == SelectDownLess(w, max, idx, less_idx)
               IN NavStep("Down", s,
                          SelectDrawLess(tty, options, w, s.idx, s.less_idx, less_idx), 0)
          ELSE LET T1 == SelectDrawUnfocus(tty, options, idx)
                   n == SelectDown(max, idx)
                   m == IF idx < max - 1 THEN 1 ELSE AsU16(AsU16(max) - 1)
                   T2 == IF idx < max - 1 THEN CursorDown(T1, m) ELSE CursorUp(T1, m)
               IN NavStep("Down", [idx |-> n, less_idx |-> less_idx, ok |-> TRUE],
                          SelectDrawFocus(T2, options, n),
                          DrawBytes(SelectUnfocusBytes(options[idx + 1], unicode), unicode) + MoveBytes(m)
                              + DrawBytes(SelectFocusBytes(options[n + 1], unicode), unicode))

\* (KeyCode::PageDown, _)
SelectKeyPageDown ==
    /\ pc = "active"
    /\ kind = "select"
    /\ IF IsSome(is_less)
       THEN LET w == Unwrap(is_less)
                s == SelectPageDown(w, Len(options), idx, less_idx)
            IN NavStep("PageDown", s,
                       SelectDrawLess(tty, options, w, s.idx, s.less_idx, less_idx), 0)
       ELSE NavStep("PageDown", [idx |-> idx, less_idx |-> less_idx, ok |-> TRUE], tty, 0)

\* (KeyCode::PageUp, _)
SelectKeyPageUp ==
    /\ pc = "active"
    /\ kind = "select"
    /\ IF IsSome(is_less)
       THEN LET w == Unwrap(is_less)
                s == SelectPageUp(w, Len(options), idx, less_idx)
            IN NavStep("PageUp", s,
                       SelectDrawLess(tty, options, w, s.idx, s.less_idx, less_idx), 0)
       ELSE NavStep("PageUp", [idx |-> idx, less_idx |-> less_idx, ok |-> TRUE], tty, 0)

\* mutant of SelectKeyEnter: the label of the focused option is returned
SelectKeyEnter_Label ==
    /\ pc = "active"
    /\ kind = "select"
    /\ \E disabled \in BOOLEAN :
        IF ~disabled
        THEN /\ result' = <<"Err", "IoError">>
             /\ pc' = "done"
             /\ UNCHANGED <<raw, tty>>
        ELSE LET T == Printed(tty,
                        IF IsSome(is_less)
                        THEN SelectWOutLess(tty, options, Unwrap(is_less), idx, less_idx)
                        ELSE SelectWOut(tty, options, idx))
             IN /\ raw' = FALSE
                /\ tty' = T
                /\ IF T.ok
                   THEN /\ result' = <<"Ok", options[idx + 1].label>>
                        /\ pc' = "done"
                   ELSE Panic
    /\ UNCHANGED <<cfgVars, navVars, cancel_calls>>
    /\ Hist("Enter")
    /\ UNCHANGED promptVars

\* (KeyCode::Enter, _)
SelectKeyEnter ==
    /\ pc = "active"
    /\ kind = "select"
    /\ \E disabled \in BOOLEAN :
        IF ~disabled
        THEN /\ result' = <<"Err", "IoError">>
             /\ pc' = "done"
             /\ UNCHANGED <<raw, tty>>
        ELSE LET T == Printed(tty,
                        IF IsSome(is_less)
                        THEN SelectWOutLess(tty, options, Unwrap(is_less), idx, less_idx)
                        ELSE SelectWOut(tty, options, idx))
             IN /\ raw' = FALSE
                /\ tty' = T
                /\ IF T.ok
                   THEN /\ result' = <<"Ok", options[idx + 1].value>>
                        /\ pc' = "done"
                   ELSE Panic
    /\ UNCHANGED <<cfgVars, navVars, cancel_calls>>
    /\ Hist("Enter")
    /\ UNCHANGED promptVars

\* mutant of SelectKeyCtrlC: the callback runs before raw mode is left
SelectKeyCtrlC_CallbackFirst ==
    /\ pc = "active"
    /\ kind = "select"
    /\ cancel_calls' = IF cancel THEN cancel_calls + 1 ELSE cancel_calls
    /\ \E disabled \in BOOLEAN :
        IF ~disabled
        THEN /\ result' = <<"Err", "IoError">>
             /\ pc' = "done"
             /\ UNCHANGED <<raw, tty>>
        ELSE LET T == Printed(tty,
                        IF IsSome(is_less)
                        THEN SelectWCancelLess(tty, options, Unwrap(is_less), idx, less_idx)
                        ELSE SelectWCancel(tty, options, idx))
             IN /\ raw' = FALSE
                /\ tty' = T
                /\ IF T.ok
                   THEN /\ result' = <<"Err", "Cancelled">>
                        /\ pc' = "done"
                   ELSE Panic
    /\ UNCHANGED <<cfgVars, navVars>>
    /\ Hist("CtrlC")
    /\ UNCHANGED promptVars

\* (KeyCode::Char('c'), KeyModifiers::CONTROL)
SelectKeyCtrlC ==
    /\ pc = "active"
    /\ kind = "select"
    /\ \E disabled \in BOOLEAN :
        IF ~disabled
        THEN /\ result' = <<"Err", "IoError">>
             /\ pc' = "done"
             /\ UNCHANGED <<raw, tty, cancel_calls>>
        ELSE LET T == Printed(tty,
                        IF IsSome(is_less)
                        THEN SelectWCancelLess(tty, options, Unwrap(is_less), idx, less_idx)
                        ELSE SelectWCancel(tty, options, idx))
             IN /\ raw' = FALSE
                /\ tty' = T
                /\ IF T.ok
                   THEN /\ cancel_calls' = IF cancel THEN cancel_calls + 1
                                           ELSE cancel_calls
                        /\ result' = <<"Err", "Cancelled">>
                        /\ pc' = "done"
                   ELSE /\ Panic
                        /\ UNCHANGED cancel_calls
    /\ UNCHANGED <<cfgVars, navVars>>
    /\ Hist("CtrlC")
    /\ UNCHANGED promptVars

\* `_ => {}`: any other key, and every event that is not a key
SelectKeyOther ==
    /\ pc = "active"
    /\ kind = "select"
    /\ UNCHANGED <<cfgVars, pc, navVars, outVars>>
    /\ Hist("Other")
    /\ UNCHANGED promptVars

\* event::read()? returns the error to the caller
SelectReadError ==
    /\ pc = "active"
    /\ kind = "select"
    /\ result' = <<"Err", "IoError">>
    /\ pc' = "done"
    /\ UNCHANGED <<cfgVars, navVars, raw, cancel_calls, tty, histVars>>
    /\ UNCHANGED promptVars

\* -------------------------------------------------- MultiSelect: painting
\* Opt::focus / Opt::unfocus of multi-select
MultiSelectFocusCell(os, i) ==
    <<"opt", os[i + 1].label,
      IF os[i + 1].active THEN "CHECKBOX_SELECTED" ELSE "CHECKBOX_ACTIVE", "focus">>
MultiSelectUnfocusCell(os, i) ==
    <<"opt", os[i + 1].label,
      IF os[i + 1].active THEN "CHECKBOX_SELECTED" ELSE "CHECKBOX_INACTIVE", "unfocus">>

\* MultiSelect::draw_focus
MultiSelectDrawFocus(T, os, i) ==
    IF i >= 0 /\ i < Len(os) THEN Put(T, MultiSelectFocusCell(os, i)) ELSE Abort(T)

\* MultiSelect::draw_unfocus
MultiSelectDrawUnfocus(T, os, i) ==
    IF i >= 0 /\ i < Len(os) THEN Put(T, MultiSelectUnfocusCell(os, i)) ELSE Abort(T)

\* the row loop of MultiSelect::draw_less: rows i..w-1 of the window
RECURSIVE MultiSelectDrawRows(_, _, _, _, _, _)
MultiSelectDrawRows(T, os, w, i, fidx, lidx) ==
    IF i >= w \/ ~T.ok THEN T
    ELSE LET i_idx == fidx + i - lidx
         IN IF fidx + i < lidx \/ i_idx >= Len(os)
            THEN Abort(T)
            ELSE MultiSelectDrawRows(PrintLn(T, MultiSelectUnfocusCell(os, i_idx)),
                                os, w, i + 1, fidx, lidx)

\* MultiSelect::draw_less
MultiSelectDrawLess(T, os, w, fidx, lidx, prev_less) ==
    LET T1 == IF prev_less > 0 THEN CursorUp(T, prev_less) ELSE T
        T2 == MultiSelectDrawRows(T1, os, w, 0, fidx, lidx)
        T3 == PrintLn(T2, ProgressCell(fidx, Len(os)))
        T4 == CursorUp(T3, AsU16(w + 1))
        T5 == IF lidx > 0 THEN CursorDown(T4, lidx) ELSE T4
    IN MultiSelectDrawFocus(T5, os, fidx)

\* println! of every option in its unfocused form (loop of w_init)
RECURSIVE MultiSelectInitRows(_, _, _)
MultiSelectInitRows(T, os, i) ==
    IF i >= Len(os) THEN T
    ELSE MultiSelectInitRows(StampLn(T, MultiSelectUnfocusCell(os, i)), os, i + 1)

\* MultiSelect::w_init
MultiSelectWInit(T, os) ==
    LET T1 == StampLn(T, <<"bar">>)
        T2 == StampLn(T1, <<"header", "STEP_ACTIVE">>)
        T3 == MultiSelectInitRows(T2, os, 0)
        T4 == Stamp(T3, <<"end">>)
        T5 == CursorUp(T4, AsU16(Len(os)))
    IN MultiSelectDrawFocus(T5, os, 0)

\* MultiSelect::w_init_less
MultiSelectWInitLess(T, os, w) ==
    LET T1 == StampLn(T, <<"bar">>)
        T2 == StampLn(T1, <<"header", "STEP_ACTIVE">>)
        T3 == MultiSelectDrawLess(T2, os, w, 0, 0, 0)
        T4 == CursorDown(T3, w)
        T5 == NewLine(T4)
        T6 == Stamp(T5, <<"end">>)
        T7 == CursorUp(T6, AsU16(w + 1))
    IN MultiSelectDrawFocus(T7, os, 0)

\* the options whose active flag is set, in list order
\* mutant of SelectedOpts: the selected options are collected back to front
RECURSIVE SelectedOpts_Reversed(_)
SelectedOpts_Reversed(os) ==
    IF os = <<>> THEN <<>>
    ELSE SelectedOpts_Reversed(Tail(os)) \o (IF os[1].active THEN <<os[1]>> ELSE <<>>)

RECURSIVE SelectedOpts(_)
SelectedOpts(os) ==
    IF os = <<>> THEN <<>>
    ELSE (IF os[1].active THEN <<os[1]>> ELSE <<>>) \o SelectedOpts(Tail(os))

\* the labels of a sequence of options
Labels(os) == [i \in 1..Len(os) |-> os[i].label]

\* the values of a sequence of options
Values(os) == [i \in 1..Len(os) |-> os[i].value]

\* the answer line of MultiSelect::w_out / w_out_less
MultiSelectAnswer(selected) ==
    IF Len(selected) = 0
    THEN <<"answer", "dimmed italic", <<"none">>>>
    ELSE <<"answer", "dimmed", Labels(selected)>>

\* MultiSelect::w_out
MultiSelectWOut(T, os, i, selected) ==
    LET T1 == CursorUp(T, AsU16(AsU16(i) + 1))
        T2 == StampLn(T1, <<"header", "STEP_SUBMIT">>)
        T3 == ClearRows(T2, Len(os))
        T4 == PrintLn(T3, <<"blank">>)
        T5 == CursorUp(T4, AsU16(AsU16(Len(os)) + 1))
    IN StampLn(T5, MultiSelectAnswer(selected))

\* MultiSelect::w_out_less
MultiSelectWOutLess(T, w, lidx, selected) ==
    LET T1 == IF lidx > 0 THEN CursorUp(T, AsU16(lidx + 1)) ELSE CursorUp(T, 1)
        T2 == StampLn(T1, <<"header", "STEP_SUBMIT">>)
        T3 == ClearRows(T2, w)
        T4 == PrintLn(PrintLn(T3, <<"blank">>), <<"blank">>)
        T5 == CursorUp(T4, AsU16(w + 2))
    IN StampLn(T5, MultiSelectAnswer(selected))

\* MultiSelect::w_cancel
MultiSelectWCancel(T, os, i) ==
    LET T1 == CursorUp(T, AsU16(AsU16(i) + 1))
        T2 == StampLn(T1, <<"header", "STEP_CANCEL">>)
        T3 == ClearRows(T2, Len(os))
        T4 == Put(T3, <<"blank">>)
        T5 == CursorUp(T4, AsU16(Len(os)))
    IN IF i >= 0 /\ i < Len(os)
       THEN StampLn(T5, <<"answer", "strikethrough", <<os[i + 1].label>>>>)
       ELSE Abort(T5)

\* MultiSelect::w_cancel_less
MultiSelectWCancelLess(T, os, w, i, lidx) ==
    LET T1 == IF lidx > 0 THEN CursorUp(T, AsU16(lidx + 1)) ELSE CursorUp(T, 1)
        T2 == StampLn(T1, <<"header", "STEP_CANCEL">>)
        T3 == ClearRows(T2, w)
        T4 == PrintLn(PrintLn(T3, <<"blank">>), <<"blank">>)
        T5 == CursorUp(T4, AsU16(w + 2))
    IN IF i >= 0 /\ i < Len(os)
       THEN StampLn(T5, <<"answer", "strikethrough", <<os[i + 1].label>>>>)
       ELSE Abort(T5)

\* ------------------------------------------------ MultiSelect: navigation
\* each step yields the new idx and less_idx; ok is FALSE when an unsigned
\* subtraction would go below zero

\* Up | Left, paged
MultiSelectUpLess(w, max, i, lidx) ==
    IF i > 0
    THEN [idx |-> i - 1, less_idx |-> SatSub(lidx, 1), ok |-> TRUE]
    ELSE [idx |-> max - 1, less_idx |-> w - 1, ok |-> w >= 1]

\* mutant of MultiSelectUp: the focus stops at the first option
MultiSelectUp_NoWrap(max, i) == IF i > 0 THEN i - 1 ELSE i

\* Up | Left, not paged
MultiSelectUp(max, i) == IF i > 0 THEN i - 1 ELSE max - 1

\* Down | Right, paged
MultiSelectDownLess(w, max, i, lidx) ==
    IF i < max - 1
    THEN [idx |-> i + 1,
          less_idx |-> IF lidx < w - 1 THEN lidx + 1 ELSE lidx,
          ok |-> w >= 1]
    ELSE [idx |-> 0, less_idx |-> 0, ok |-> TRUE]

\* mutant of MultiSelectDown: the focus stops at the last option
MultiSelectDown_NoWrap(max, i) == IF i < max - 1 THEN i + 1 ELSE i

\* Down | Right, not paged
MultiSelectDown(max, i) == IF i < max - 1 THEN i + 1 ELSE 0

\* mutant of MultiSelectPageDown: the jump is one option short
MultiSelectPageDown_ShortJump(w, max, i, lidx) ==
    IF i + w >= max - 1
    THEN [idx |-> max - 1, less_idx |-> w - 1, ok |-> w >= 1]
    ELSE LET n == i + w - 1
         IN IF w < lidx THEN [idx |-> n, less_idx |-> lidx, ok |-> FALSE]
            ELSE IF max - n < w - lidx
                 THEN [idx |-> n, less_idx |-> w - AsU16(max - n),
                       ok |-> w >= AsU16(max - n)]
                 ELSE [idx |-> n, less_idx |-> lidx, ok |-> TRUE]

\* PageDown
MultiSelectPageDown(w, max, i, lidx) ==
    IF i + w >= max - 1
    THEN [idx |-> max - 1, less_idx |-> w - 1, ok |-> w >= 1]
    ELSE LET n == i + w
         IN IF w < lidx THEN [idx |-> n, less_idx |-> lidx, ok |-> FALSE]
            ELSE IF max - n < w - lidx
                 THEN [idx |-> n, less_idx |-> w - AsU16(max - n),
                       ok |-> w >= AsU16(max - n)]
                 ELSE [idx |-> n, less_idx |-> lidx, ok |-> TRUE]

\* mutant of MultiSelectPageUp: the focus is pinned to the window's first row
MultiSelectPageUp_PinTop(w, max, i, lidx) ==
    IF i <= w
    THEN [idx |-> 0, less_idx |-> 0, ok |-> TRUE]
    ELSE [idx |-> i - w, less_idx |-> 0, ok |-> TRUE]

\* PageUp
MultiSelectPageUp(w, max, i, lidx) ==
    IF i <= w
    THEN [idx |-> 0, less_idx |-> 0, ok |-> TRUE]
    ELSE [idx |-> i - w, less_idx |-> Min(lidx, AsU16(i - w)), ok |-> TRUE]


\* -------------------------------------------------- MultiSelect::interact
\* interact() up to the first event::read()
MultiSelectInteract ==
    /\ pc = "config"
    /\ kind = "multi_select"
    /\ IF Len(options) = 0
       THEN /\ result' = <<"Err", "NoOptions">>
            /\ pc' = "done"
            /\ UNCHANGED <<term, is_less, tty, raw, opts>>
       ELSE /\ opts' = options
            /\ term' \in (IF AsksSize(less, less_amt) THEN TermSizes(tty.rows) ELSE {Unasked})
            /\ is_less' = MultiSelectMkLess(less, less_amt, less_max, Len(options), term')
            /\ LET T == Begin(tty)
               IN tty' = IF IsSome(is_less')
                         THEN MultiSelectWInitLess(T, options, Unwrap(is_less'))
                         ELSE MultiSelectWInit(T, options)
            /\ \E enabled \in BOOLEAN :
                IF enabled
                THEN /\ raw' = TRUE
                     /\ pc' = "active"
                     /\ UNCHANGED result
                ELSE /\ result' = <<"Err", "IoError">>
                     /\ pc' = "done"
                     /\ UNCHANGED raw
    /\ UNCHANGED <<cfgVars, idx, less_idx, cancel_calls, histVars>>
    /\ UNCHANGED promptVars

\* (KeyCode::Up | KeyCode::Left, _)
MultiSelectKeyUp ==
    /\ pc = "active"
    /\ kind = "multi_select"
    /\ LET max == Len(options)
       IN IF IsSome(is_less)
          THEN LET w == Unwrap(is_less)
                   s == MultiSelectUpLess(w, max, idx, less_idx)
               IN NavStep("Up", s,
                          MultiSelectDrawLess(tty, opts, w, s.idx, s.less_idx, less_idx), 0)
          ELSE LET T1 == MultiSelectDrawUnfocus(tty, opts, idx)
                   n == MultiSelectUp(max, idx)
                   m == IF idx > 0 THEN 1 ELSE AsU16(AsU16(max) - 1)
                   T2 == IF idx > 0 THEN CursorUp(T1, m) ELSE CursorDown(T1, m)
               IN NavStep("Up", [idx |-> n, less_idx |-> less_idx, ok |-> TRUE],
                          MultiSelectDrawFocus(T2, opts, n),
                          DrawBytes(MultiSelectUnfocusBytes(opts[idx + 1]), unicode) + MoveBytes(m)
                              + DrawBytes(MultiSelectFocusBytes(opts[n + 1]), unicode))

\* (KeyCode::Down | KeyCode::Right, _)
MultiSelectKeyDown ==
    /\ pc = "active"
    /\ kind = "multi_select"
    /\ LET max == Len(options)
       IN IF IsSome(is_less)
          THEN LET w == Unwrap(is_less)
                   s == MultiSelectDownLess(w, max, idx, less_idx)
               IN NavStep("Down", s,
                          MultiSelectDrawLess(tty, opts, w, s.idx, s.less_idx, less_idx), 0)
          ELSE LET T1 == MultiSelectDrawUnfocus(tty, opts, idx)
                   n == MultiSelectDown(max, idx)
                   m == IF idx < max - 1 THEN 1 ELSE AsU16(AsU16(max) - 1)
                   T2 == IF idx < max - 1 THEN CursorDown(T1, m) ELSE CursorUp(T1, m)
               IN NavStep("Down", [idx |-> n, less_idx |-> less_idx, ok |-> TRUE],
                          MultiSelectDrawFocus(T2, opts, n),
                          DrawBytes(MultiSelectUnfocusBytes(opts[idx + 1]), unicode) + MoveBytes(m)
                              + DrawBytes(MultiSelectFocusBytes(opts[n + 1]), unicode))

\* (KeyCode::PageDown, _)
MultiSelectKeyPageDown ==
    /\ pc = "active"
    /\ kind = "multi_select"
    /\ IF IsSome(is_less)
       THEN LET w == Unwrap(is_less)
                s == MultiSelectPageDown(w, Len(options), idx, less_idx)
            IN NavStep("PageDown", s,
                       MultiSelectDrawLess(tty, opts, w, s.idx, s.less_idx, less_idx), 0)
       ELSE NavStep("PageDown", [idx |-> idx, less_idx |-> less_idx, ok |-> TRUE], tty, 0)

\* (KeyCode::PageUp, _)
MultiSelectKeyPageUp ==
    /\ pc = "active"
    /\ kind = "multi_select"
    /\ IF IsSome(is_less)
       THEN LET w == Unwrap(is_less)
                s == MultiSelectPageUp(w, Len(options), idx, less_idx)
            IN NavStep("PageUp", s,
                       MultiSelectDrawLess(tty, opts, w, s.idx, s.less_idx, less_idx), 0)
       ELSE NavStep("PageUp", [idx |-> idx, less_idx |-> less_idx, ok |-> TRUE], tty, 0)

\* Opt::toggle of multi-select
\* mutant of Toggle: Space only ever selects
Toggle_SetActive(o) == [o EXCEPT !.active = TRUE]

\* Opt::toggle
Toggle(o) == [o EXCEPT !.active = ~o.active]

\* mutant of MultiSelectKeySpace: the toggle acts on the configured options
MultiSelectKeySpace_Shared ==
    /\ pc = "active"
    /\ kind = "multi_select"
    /\ IF idx >= 0 /\ idx < Len(opts)
       THEN LET os == [opts EXCEPT ![idx + 1] = Toggle(opts[idx + 1])]
                T == Buffered(tty, MultiSelectDrawFocus(tty, os, idx),
                              DrawBytes(MultiSelectFocusBytes(os[idx + 1]), unicode))
            IN IF T.ok
               THEN /\ opts' = os
                    /\ options' = os
                    /\ tty' = T
                    /\ UNCHANGED <<pc, result>>
               ELSE /\ Panic
                    /\ tty' = T
                    /\ UNCHANGED <<opts, options>>
       ELSE /\ Panic
            /\ tty' = Abort(tty)
            /\ UNCHANGED <<opts, options>>
    /\ UNCHANGED <<kind, less, less_amt, less_max, cancel>>
    /\ UNCHANGED <<term, is_less, idx, less_idx, raw, cancel_calls>>
    /\ Hist("Space")
    /\ UNCHANGED promptVars

\* (KeyCode::Char(' '), _)
MultiSelectKeySpace ==
    /\ pc = "active"
    /\ kind = "multi_select"
    /\ IF idx >= 0 /\ idx < Len(opts)
       THEN LET os == [opts EXCEPT ![idx + 1] = Toggle(opts[idx + 1])]
                T == Buffered(tty, MultiSelectDrawFocus(tty, os, idx),
                              DrawBytes(MultiSelectFocusBytes(os[idx + 1]), unicode))
            IN IF T.ok
               THEN /\ opts' = os
                    /\ tty' = T
                    /\ UNCHANGED <<pc, result>>
               ELSE /\ Panic
                    /\ tty' = T
                    /\ UNCHANGED opts
       ELSE /\ Panic
            /\ tty' = Abort(tty)
            /\ UNCHANGED opts
    /\ UNCHANGED <<cfgVars, term, is_less, idx, less_idx, raw, cancel_calls>>
    /\ Hist("Space")
    /\ UNCHANGED promptVars

\* (KeyCode::Enter, _)
MultiSelectKeyEnter ==
    /\ pc = "active"
    /\ kind = "multi_select"
    /\ \E disabled \in BOOLEAN :
        IF ~disabled
        THEN /\ result' = <<"Err", "IoError">>
             /\ pc' = "done"
             /\ UNCHANGED <<raw, tty>>
        ELSE LET selected_opts == SelectedOpts(opts)
                 T == Printed(tty,
                        IF IsSome(is_less)
                        THEN MultiSelectWOutLess(tty, Unwrap(is_less), less_idx, selected_opts)
                        ELSE MultiSelectWOut(tty, options, idx, selected_opts))
             IN /\ raw' = FALSE
                /\ tty' = T
                /\ IF T.ok
                   THEN /\ result' = <<"Ok", Values(SelectedOpts(opts))>>
                        /\ pc' = "done"
                   ELSE Panic
    /\ UNCHANGED <<cfgVars, navVars, cancel_calls>>
    /\ Hist("Enter")
    /\ UNCHANGED promptVars

\* (KeyCode::Char('c'), KeyModifiers::CONTROL): ends in panic!()
MultiSelectKeyCtrlC ==
    /\ pc = "active"
    /\ kind = "multi_select"
    /\ \E disabled \in BOOLEAN :
        IF ~disabled
        THEN /\ result' = <<"Err", "IoError">>
             /\ pc' = "done"
             /\ UNCHANGED <<raw, tty, cancel_calls>>
        ELSE LET T == Printed(tty,
                        IF IsSome(is_less)
                        THEN MultiSelectWCancelLess(tty, options, Unwrap(is_less), idx, less_idx)
                        ELSE MultiSelectWCancel(tty, options, idx))
             IN /\ raw' = FALSE
                /\ tty' = T
                /\ cancel_calls' = IF T.ok /\ cancel THEN cancel_calls + 1
                                   ELSE cancel_calls
                /\ Panic
    /\ UNCHANGED <<cfgVars, navVars>>
    /\ Hist("CtrlC")
    /\ UNCHANGED promptVars

\* `_ => {}`: any other key, and every event that is not a key
MultiSelectKeyOther ==
    /\ pc = "active"
    /\ kind = "multi_select"
    /\ UNCHANGED <<cfgVars, pc, navVars, outVars>>
    /\ Hist("Other")
    /\ UNCHANGED promptVars

\* event::read()? returns the error to the caller
MultiSelectReadError ==
    /\ pc = "active"
    /\ kind = "multi_select"
    /\ result' = <<"Err", "IoError">>
    /\ pc' = "done"
    /\ UNCHANGED <<cfgVars, navVars, raw, cancel_calls, tty, histVars>>
    /\ UNCHANGED promptVars

\* ======================================================= option rows
\* Opt::focus / Opt::unfocus with the label as text: a label and a hint are
\* sequences of characters of width 1

\* usize subtraction a - b on an Option: None once a difference is negative
CheckedSub(a, b) ==
    IF IsSome(a) /\ Unwrap(a) >= b THEN Some(Unwrap(a) - b) ELSE None

\* unicode_truncate(max): the longest prefix of at most max columns
UnicodeTruncate(label, max) == SubSeq(label, 1, Min(Len(label), max))

\* self.hint.as_deref().map_or(0, |hint| hint.len() + 3)
HintLen(o) == IF IsSome(o.hint) THEN Len(Unwrap(o.hint)) + 3 ELSE 0

\* width as usize - 5 - hint
SelectTruncWidth(width, hint) ==
    CheckedSub(CheckedSub(Some(width), SELECT_PAD), hint)

\* let one_three = if *IS_UNICODE { 1 } else { 3 }
OneThree(uni) == IF uni THEN 1 ELSE 3

\* width as usize - 4 - one_three - hint
MultiSelectTruncWidth(width, hint, uni) ==
    CheckedSub(CheckedSub(CheckedSub(Some(width), MULTI_SELECT_PAD), OneThree(uni)),
               hint)

\* the label after `unicode_truncate(w)` where w is the subtraction's
\* outcome: a negative difference panics in a build with overflow checks
\* (None); without them it wraps to 2^64 minus the shortfall, which is more
\* than any label is wide, so the label is kept whole
Truncated(label, w, checked) ==
    IF IsSome(w) THEN Some(UnicodeTruncate(label, Unwrap(w)))
    ELSE IF checked THEN None
    ELSE Some(label)

\* Opt::trunc of select: size is what terminal::size() answers
SelectOptTrunc(o, hint, size, checked) ==
    IF IsSome(size)
    THEN Truncated(o.label, SelectTruncWidth(Unwrap(size), hint), checked)
    ELSE Some(o.label)

\* Opt::trunc of multi-select
MultiSelectOptTrunc(o, hint, size, uni, checked) ==
    IF IsSome(size)
    THEN Truncated(o.label, MultiSelectTruncWidth(Unwrap(size), hint, uni), checked)
    ELSE Some(o.label)

\* Opt::focus of select: the line, or None when trunc panics
SelectOptFocus(o, size, checked) ==
    LET label == SelectOptTrunc(o, HintLen(o), size, checked)
    IN IF IsSome(label)
       THEN Some(<<"opt", Unwrap(label), "RADIO_ACTIVE", "focus", o.hint>>)
       ELSE None

\* Opt::unfocus of select
SelectOptUnfocus(o, size, checked) ==
    LET label == SelectOptTrunc(o, 0, size, checked)
    IN IF IsSome(label)
       THEN Some(<<"opt", Unwrap(label), "RADIO_INACTIVE", "unfocus", None>>)
       ELSE None

\* Opt::focus of multi-select
MultiSelectOptFocus(o, size, uni, checked) ==
    LET label == MultiSelectOptTrunc(o, HintLen(o), size, uni, checked)
    IN IF IsSome(label)
       THEN Some(<<"opt", Unwrap(label),
                   IF o.active THEN "CHECKBOX_SELECTED" ELSE "CHECKBOX_ACTIVE",
                   "focus", o.hint>>)
       ELSE None

\* Opt::unfocus of multi-select
MultiSelectOptUnfocus(o, size, uni, checked) ==
    LET label == MultiSelectOptTrunc(o, 0, size, uni, checked)
    IN IF IsSome(label)
       THEN Some(<<"opt", Unwrap(label),
                   IF o.active THEN "CHECKBOX_SELECTED" ELSE "CHECKBOX_INACTIVE",
                   "unfocus", None>>)
       ELSE None

\* the columns of the terminal the rows are written to: what the size probe
\* answered; a failed probe and an answer of 0 say nothing about them
DisplayColumns(size) ==
    IF IsSome(size) /\ Unwrap(size) > 0 THEN {Unwrap(size)}
    ELSE (1..MaxColumns) \cup {WideColumns}

\* draw(&line): the row is written, unless making the line panicked
DrawLine(line) ==
    IF IsSome(line)
    THEN /\ \E c \in DisplayColumns(columns) :
              tty' = PutWrapped(tty, Unwrap(line), c)
         /\ pc' = "active"
         /\ UNCHANGED result
    ELSE /\ tty' = Abort(tty)
         /\ Panic

\* Select::draw_focus(0)
SelectFocusRow ==
    /\ pc = "config"
    /\ kind = "select"
    /\ \E checked \in BOOLEAN :
        DrawLine(SelectOptFocus(options[1], columns, checked))
    /\ UNCHANGED <<cfgVars, navVars, raw, cancel_calls, histVars, promptVars>>

\* Select::draw_unfocus(0)
SelectUnfocusRow ==
    /\ pc = "config"
    /\ kind = "select"
    /\ \E checked \in BOOLEAN :
        DrawLine(SelectOptUnfocus(options[1], columns, checked))
    /\ UNCHANGED <<cfgVars, navVars, raw, cancel_calls, histVars, promptVars>>

\* MultiSelect::draw_focus(&options, 0)
MultiSelectFocusRow ==
    /\ pc = "config"
    /\ kind = "multi_select"
    /\ \E checked \in BOOLEAN :
        DrawLine(MultiSelectOptFocus(options[1], columns, unicode, checked))
    /\ UNCHANGED <<cfgVars, navVars, raw, cancel_calls, histVars, promptVars>>

\* MultiSelect::draw_unfocus(&options, 0)
MultiSelectUnfocusRow ==
    /\ pc = "config"
    /\ kind = "multi_select"
    /\ \E checked \in BOOLEAN :
        DrawLine(MultiSelectOptUnfocus(options[1], columns, unicode, checked))
    /\ UNCHANGED <<cfgVars, navVars, raw, cancel_calls, histVars, promptVars>>

\* ============================================================== Confirm
\* Confirm::initial_value(b)
ConfirmInitialValue ==
    /\ pc = "config"
    /\ kind = "confirm"
    /\ \E b \in BOOLEAN : b # initial_value /\ initial_value' = b
    /\ UNCHANGED <<cfgVars, pc, navVars, outVars, histVars, inputVars>>
    /\ UNCHANGED <<prompts, val, hidden, flips>>

\* Confirm::prompts(yes, no)
ConfirmPrompts ==
    /\ pc = "config"
    /\ kind = "confirm"
    /\ prompts = <<"yes", "no">>
    /\ prompts' = <<"true", "false">>
    /\ UNCHANGED <<cfgVars, pc, navVars, outVars, histVars, inputVars>>
    /\ UNCHANGED <<initial_value, val, hidden, flips>>

\* Confirm::radio: the yes / no pair with the active one marked
ConfirmRadio(value, ps) ==
    <<"radio", IF value THEN "RADIO_ACTIVE" ELSE "RADIO_INACTIVE", ps[1],
               IF value THEN "RADIO_INACTIVE" ELSE "RADIO_ACTIVE", ps[2]>>

\* Confirm::draw
ConfirmDraw(T, value, ps) == Stamp(T, ConfirmRadio(value, ps))

\* the bytes Confirm::draw writes: MoveToColumn(0), the bar in cyan, two
\* spaces, and the radio: the active radio in green and its prompt, " / ",
\* the inactive radio and its prompt dimmed as one text
ConfirmDrawBytes(ps, uni) ==
    4 + (10 + GlyphBytes(uni)) + 2
      + (10 + GlyphBytes(uni)) + 1 + 3 + (8 + GlyphBytes(uni) + 1)
      + StrBytes(ps[1]) + StrBytes(ps[2])

\* Confirm::w_init
ConfirmWInit(T, value, ps) ==
    LET T1 == StampLn(T, <<"bar">>)
        T2 == StampLn(T1, <<"header", "STEP_ACTIVE">>)
        T3 == StampLn(T2, <<"bar">>)
        T4 == Stamp(T3, <<"end">>)
        T5 == CursorUp(T4, 1)
    IN ConfirmDraw(T5, value, ps)

\* the answer Confirm::w_out / w_cancel print
ConfirmAnswer(value, ps) == IF value THEN ps[1] ELSE ps[2]

\* Confirm::w_out
ConfirmWOut(T, value, ps) ==
    LET T1 == CursorUp(T, 1)
        T2 == StampLn(T1, <<"header", "STEP_SUBMIT">>)
    IN PrintLn(T2, <<"answer", "dimmed", <<ConfirmAnswer(value, ps)>>>>)

\* Confirm::w_cancel
ConfirmWCancel(T, value, ps) ==
    LET T1 == CursorUp(T, 1)
        T2 == StampLn(T1, <<"header", "STEP_CANCEL">>)
    IN PrintLn(T2, <<"answer", "strikethrough", <<ConfirmAnswer(value, ps)>>>>)

\* interact() up to the first event::read()
ConfirmInteract ==
    /\ pc = "config"
    /\ kind = "confirm"
    /\ tty' = ConfirmWInit(Begin(tty), initial_value, prompts)
    /\ hidden' = TRUE
    /\ \E enabled \in BOOLEAN :
        IF enabled
        THEN /\ raw' = TRUE
             /\ val' = initial_value
             /\ pc' = "active"
             /\ UNCHANGED result
        ELSE /\ result' = <<"Err", "IoError">>
             /\ pc' = "done"
             /\ UNCHANGED <<raw, val>>
    /\ UNCHANGED <<cfgVars, navVars, cancel_calls, histVars, inputVars>>
    /\ UNCHANGED <<initial_value, prompts, flips>>

\* mutant of ConfirmFlip: a directional key selects yes
ConfirmFlip_SetTrue(b) == TRUE

\* val = !val
ConfirmFlip(b) == ~b

\* (KeyCode::Up | KeyCode::Down | KeyCode::Left | KeyCode::Right, _)
ConfirmKeyArrow ==
    /\ pc = "active"
    /\ kind = "confirm"
    /\ flips < MaxFlips
    /\ LET T == Buffered(tty, ConfirmDraw(tty, ConfirmFlip(val), prompts),
                          ConfirmDrawBytes(prompts, unicode))
       IN /\ tty' = T
          /\ IF T.ok
             THEN /\ val' = ConfirmFlip(val)
                  /\ UNCHANGED pc
             ELSE /\ pc' = "panicked"
                  /\ UNCHANGED val
    /\ flips' = flips + 1
    /\ UNCHANGED <<cfgVars, navVars, raw, cancel_calls, result, inputVars>>
    /\ UNCHANGED <<initial_value, prompts, hidden>>
    /\ Hist("Arrow")

\* the three submitting arms: Show, disable_raw_mode()?, w_out, Ok
ConfirmSubmit(key, value) ==
    /\ hidden' = (hidden /\ ~stdout_ok)
    /\ \E disabled \in BOOLEAN :
        IF ~disabled
        THEN /\ result' = <<"Err", "IoError">>
             /\ pc' = "done"
             /\ UNCHANGED <<raw, tty>>
        ELSE LET T == Printed(tty, ConfirmWOut(tty, value, prompts))
             IN /\ raw' = FALSE
                /\ tty' = T
                /\ IF T.ok
                   THEN /\ result' = <<"Ok", value>>
                        /\ pc' = "done"
                   ELSE Panic
    /\ UNCHANGED <<cfgVars, navVars, cancel_calls, inputVars>>
    /\ UNCHANGED <<initial_value, prompts, val, flips>>
    /\ Hist(key)

\* mutant of ConfirmYesValue: y submits the current boolean
ConfirmYesValue_Current == val

\* what the y arm hands to w_out and returns
ConfirmYesValue == TRUE

\* (KeyCode::Char('y' | 'Y'), _)
ConfirmKeyYes ==
    /\ pc = "active"
    /\ kind = "confirm"
    /\ ConfirmSubmit("y", ConfirmYesValue)

\* (KeyCode::Char('n' | 'N'), _)
ConfirmKeyNo ==
    /\ pc = "active"
    /\ kind = "confirm"
    /\ ConfirmSubmit("n", FALSE)

\* (KeyCode::Enter, _)
ConfirmKeyEnter ==
    /\ pc = "active"
    /\ kind = "confirm"
    /\ ConfirmSubmit("Enter", val)

\* mutant of ConfirmKeyCtrlC: the cancel callback is not invoked
ConfirmKeyCtrlC_NoCallback ==
    /\ pc = "active"
    /\ kind = "confirm"
    /\ hidden' = (hidden /\ ~stdout_ok)
    /\ \E disabled \in BOOLEAN :
        IF ~disabled
        THEN /\ result' = <<"Err", "IoError">>
             /\ pc' = "done"
             /\ UNCHANGED <<raw, tty, cancel_calls>>
        ELSE LET T == Printed(tty, ConfirmWCancel(tty, val, prompts))
             IN /\ raw' = FALSE
                /\ tty' = T
                /\ IF T.ok
                   THEN /\ cancel_calls' = cancel_calls
                        /\ result' = <<"Err", "Cancelled">>
                        /\ pc' = "done"
                   ELSE /\ Panic
                        /\ UNCHANGED cancel_calls
    /\ UNCHANGED <<cfgVars, navVars, inputVars>>
    /\ UNCHANGED <<initial_value, prompts, val, flips>>
    /\ Hist("CtrlC")

\* (KeyCode::Char('c' | 'd'), KeyModifiers::CONTROL)
ConfirmKeyCtrlC ==
    /\ pc = "active"
    /\ kind = "confirm"
    /\ hidden' = (hidden /\ ~stdout_ok)
    /\ \E disabled \in BOOLEAN :
        IF ~disabled
        THEN /\ result' = <<"Err", "IoError">>
             /\ pc' = "done"
             /\ UNCHANGED <<raw, tty, cancel_calls>>
        ELSE LET T == Printed(tty, ConfirmWCancel(tty, val, prompts))
             IN /\ raw' = FALSE
                /\ tty' = T
                /\ IF T.ok
                   THEN /\ cancel_calls' = IF cancel THEN cancel_calls + 1
                                           ELSE cancel_calls
                        /\ result' = <<"Err", "Cancelled">>
                        /\ pc' = "done"
                   ELSE /\ Panic
                        /\ UNCHANGED cancel_calls
    /\ UNCHANGED <<cfgVars, navVars, inputVars>>
    /\ UNCHANGED <<initial_value, prompts, val, flips>>
    /\ Hist("CtrlC")

\* `_ => {}`: any other key, and every event that is not a key
ConfirmKeyOther ==
    /\ pc = "active"
    /\ kind = "confirm"
    /\ UNCHANGED <<cfgVars, pc, navVars, outVars, promptVars>>
    /\ Hist("Other")

\* event::read()? returns the error to the caller
ConfirmReadError ==
    /\ pc = "active"
    /\ kind = "confirm"
    /\ result' = <<"Err", "IoError">>
    /\ pc' = "done"
    /\ UNCHANGED <<cfgVars, navVars, raw, cancel_calls, tty, histVars, promptVars>>


\* ================================================================ Input
\* the lines a user submits: empty, a number, a word, and the word the
\* configured validator rejects
Lines == {"", "7", "x", "no"}
\* what a failed read is recorded as in the history of reads
ReadFailed == "<error>"

\* the validator closure handed to validate(): it rejects one word
Rejects(l) == l = "no"

\* Input::do_validate / MultiInput::do_validate: Some(text) is a rejection
DoValidate(has, l) == IF has /\ Rejects(l) THEN Some("invalid") ELSE None

\* the call of the validator closure that do_validate makes when one is
\* configured
Validated(has, l) == IF has THEN <<<<"validate", l>>>> ELSE <<>>

\* the entry points that return text (T = String) and those that parse
TextEntries == {"interact", "required"}
ParseEntries == {"parse", "maybe_parse"}

\* value.parse::<T>(): String never fails, a number only parses digits
ParseAs(e, l) ==
    IF e \in TextEntries THEN Some(l)
    ELSE IF l = "7" THEN Some(7) ELSE None

\* mutant of InteractOnce: a rejected line is not kept for the next read
InteractOnce_Retype(l, enforce_non_empty, has, e, required_text) ==
    IF l = ""
    THEN IF enforce_non_empty
         THEN [out |-> "again", prefill |-> None, text |-> required_text,
               calls |-> <<>>]
         ELSE [out |-> "none", calls |-> <<>>]
    ELSE IF IsSome(DoValidate(has, l))
         THEN [out |-> "again", prefill |-> None,
               text |-> Unwrap(DoValidate(has, l)),
               calls |-> Validated(has, l)]
         ELSE IF IsSome(ParseAs(e, l))
              THEN [out |-> "some", value |-> Unwrap(ParseAs(e, l)),
                    calls |-> Validated(has, l) \o <<<<"parse", l>>>>]
              ELSE [out |-> "again", prefill |-> None, text |-> "parse error",
                    calls |-> Validated(has, l) \o <<<<"parse", l>>>>]

\* mutant of InteractOnce: the validator also sees an empty line that is
\* allowed
InteractOnce_ValidatesEmpty(l, enforce_non_empty, has, e, required_text) ==
    IF l = ""
    THEN IF enforce_non_empty
         THEN [out |-> "again", prefill |-> None, text |-> required_text,
               calls |-> <<>>]
         ELSE [out |-> "none", calls |-> Validated(has, l)]
    ELSE IF IsSome(DoValidate(has, l))
         THEN [out |-> "again", prefill |-> Some(l),
               text |-> Unwrap(DoValidate(has, l)),
               calls |-> Validated(has, l)]
         ELSE IF IsSome(ParseAs(e, l))
              THEN [out |-> "some", value |-> Unwrap(ParseAs(e, l)),
                    calls |-> Validated(has, l) \o <<<<"parse", l>>>>]
              ELSE [out |-> "again", prefill |-> Some(l), text |-> "parse error",
                    calls |-> Validated(has, l) \o <<<<"parse", l>>>>]

\* mutant of InteractOnce: a line that does not parse ends the loop
InteractOnce_ParseErrorLeaves(l, enforce_non_empty, has, e, required_text) ==
    IF l = ""
    THEN IF enforce_non_empty
         THEN [out |-> "again", prefill |-> None, text |-> required_text,
               calls |-> <<>>]
         ELSE [out |-> "none", calls |-> <<>>]
    ELSE IF IsSome(DoValidate(has, l))
         THEN [out |-> "again", prefill |-> Some(l),
               text |-> Unwrap(DoValidate(has, l)),
               calls |-> Validated(has, l)]
         ELSE IF IsSome(ParseAs(e, l))
              THEN [out |-> "some", value |-> Unwrap(ParseAs(e, l)),
                    calls |-> Validated(has, l) \o <<<<"parse", l>>>>]
              ELSE [out |-> "none",
                    calls |-> Validated(has, l) \o <<<<"parse", l>>>>]

\* one pass of the loop of interact_once on the submitted line l
InteractOnce(l, enforce_non_empty, has, e, required_text) ==
    IF l = ""
    THEN IF enforce_non_empty
         THEN [out |-> "again", prefill |-> None, text |-> required_text,
               calls |-> <<>>]
         ELSE [out |-> "none", calls |-> <<>>]
    ELSE IF IsSome(DoValidate(has, l))
         THEN [out |-> "again", prefill |-> Some(l),
               text |-> Unwrap(DoValidate(has, l)),
               calls |-> Validated(has, l)]
         ELSE IF IsSome(ParseAs(e, l))
              THEN [out |-> "some", value |-> Unwrap(ParseAs(e, l)),
                    calls |-> Validated(has, l) \o <<<<"parse", l>>>>]
              ELSE [out |-> "again", prefill |-> Some(l), text |-> "parse error",
                    calls |-> Validated(has, l) \o <<<<"parse", l>>>>]


\* println!/print! without CLEAR_LINE of a bare glyph: only the first
\* column of the row is overwritten, text already on the row stays
Over(T, glyph) == Stamp(T, <<glyph>>)

\* what the line reader leaves behind: the prompt and the text on the
\* input row, and the cursor at the start of the next row
ReadEcho(T, text) == NewLine(Put(T, <<"bar", text>>))

\* Input::w_init
InputWInit(T) ==
    LET T1 == StampLn(T, <<"bar">>)
        T2 == StampLn(T1, <<"header", "STEP_ACTIVE">>)
        T3 == StampLn(T2, <<"bar">>)
        T4 == Stamp(T3, <<"end">>)
        T5 == CursorUp(T4, 1)
    IN Over(T5, "bar")

\* Input::w_val
InputWVal(T, text) ==
    LET T1 == CursorUp(T, 2)
        T2 == StampLn(T1, <<"header", "STEP_ERROR">>)
        T3 == NewLine(Over(T2, "bar"))
        T4 == Put(T3, <<"end", text>>)
    IN CursorUp(T4, 1)

\* Input::w_out: the CLEAR_LINE after the answer line is not flushed, the
\* row below the answer keeps the end of the frame while interact() returns
InputWOut(T, value) ==
    LET T1 == CursorUp(T, 2)
        T2 == StampLn(T1, <<"header", "STEP_SUBMIT">>)
        T3 == PrintLn(T2, <<"answer", "dimmed", <<value>>>>)
    IN Held(T3)

\* Input::w_cancel: the last CLEAR_LINE is not flushed either
InputWCancel(T) ==
    LET T1 == CursorUp(T, 2)
        T2 == StampLn(T1, <<"header", "STEP_CANCEL">>)
        T3 == PrintLn(T2, <<"answer", "strikethrough", <<"cancelled">>>>)
    IN Held(T3)

\* Input::initial_value / Input::maybe_initial with Some
InputInitialValue ==
    /\ pc = "config"
    /\ kind \in {"input", "multi_input"}
    /\ \E l \in Lines \ {"", "x"} :
        /\ initial_value # Some(l)
        /\ initial_value' = Some(l)
    /\ UNCHANGED <<cfgVars, pc, navVars, outVars, histVars, inputVars>>
    /\ UNCHANGED <<prompts, val, hidden, flips>>

\* Input::validate / MultiInput::validate
InputValidate ==
    /\ pc = "config"
    /\ kind \in {"input", "multi_input"}
    /\ validate = FALSE
    /\ validate' = TRUE
    /\ UNCHANGED <<cfgVars, pc, navVars, outVars, histVars, confirmVars>>
    /\ UNCHANGED <<min_lines, max_lines, entry, prefill, is_val, accepted, reads,
                 default_value, calls>>

\* Input::default_value, called by examples/full.rs and main.rs; its body
\* is not part of the sources, it is taken from the description of the
\* text input: an empty line falls back to the configured default value
InputDefaultValue ==
    /\ pc = "config"
    /\ kind = "input"
    /\ default_value = None
    /\ default_value' = Some("default")
    /\ UNCHANGED <<cfgVars, pc, navVars, outVars, histVars, confirmVars>>
    /\ UNCHANGED <<validate, min_lines, max_lines, entry, prefill, is_val, accepted, reads,
                 calls>>

\* mutant of InputDefault: the default value is ignored
InputDefault_Ignored(l, d, r) == r

\* the fall-back of an empty line to the default value d, ahead of the
\* outcome r of the loop body
InputDefault(l, d, r) ==
    IF l = "" /\ IsSome(d)
    THEN [out |-> "some", value |-> Unwrap(d), calls |-> <<>>]
    ELSE r

\* mutant of InputEnforces: no entry point enforces a non-empty line
InputEnforces_Never(e) == FALSE

\* whether the entry point calls interact_once(true)
InputEnforces(e) == e \in {"required", "parse"}

\* interact() / required() / parse() / maybe_parse() up to the first read:
\* w_init, then Editor::new()? of interact_once
InputStart ==
    /\ pc = "config"
    /\ kind = "input"
    /\ \E e \in TextEntries \cup ParseEntries :
        /\ IsSome(default_value) => e \in TextEntries
        /\ entry' = e
    /\ tty' = InputWInit(Begin(tty))
    /\ \E made \in BOOLEAN :
        IF made
        THEN /\ prefill' = initial_value
             /\ pc' = "active"
             /\ UNCHANGED result
        ELSE /\ result' = <<"Err", "ReadlineError">>
             /\ pc' = "done"
             /\ UNCHANGED prefill
    /\ UNCHANGED <<cfgVars, navVars, raw, cancel_calls, histVars, confirmVars>>
    /\ UNCHANGED <<validate, min_lines, max_lines, is_val, accepted, reads,
                 default_value, calls>>

\* what each entry point returns for Ok(Some(value)) of interact_once
InputSome(e, value) ==
    IF e \in {"interact", "maybe_parse"} THEN <<"Ok", Some(value)>>
    ELSE <<"Ok", value>>

\* what w_out prints for a value: its Display form
Shown(e, value) == IF e \in TextEntries THEN value ELSE Digits(value)

\* one readline that returned Ok(l), and what the loop and the entry point
\* do with it
InputReadLine ==
    /\ pc = "active"
    /\ kind = "input"
    /\ Len(reads) < MaxReads
    /\ \E l \in Lines :
        LET T == ReadEcho(tty, l)
            r == InputDefault(l, default_value,
                    InteractOnce(l, InputEnforces(entry), validate, entry,
                                 "value is required"))
        IN /\ reads' = Append(reads, l)
           /\ calls' = calls \o r.calls
           /\ CASE r.out = "again" ->
                    /\ prefill' = r.prefill
                    /\ is_val' = TRUE
                    /\ tty' = InputWVal(T, r.text)
                    /\ UNCHANGED <<pc, result>>
                [] r.out = "none" ->
                    /\ UNCHANGED <<prefill, is_val>>
                    /\ IF InputEnforces(entry)
                       THEN /\ Panic
                            /\ tty' = T
                       ELSE /\ tty' = InputWOut(T, "")
                            /\ result' = <<"Ok", None>>
                            /\ pc' = "done"
                [] r.out = "some" ->
                    /\ tty' = InputWOut(T, Shown(entry, r.value))
                    /\ result' = InputSome(entry, r.value)
                    /\ pc' = "done"
                    /\ UNCHANGED <<prefill, is_val>>
    /\ UNCHANGED <<cfgVars, navVars, raw, cancel_calls, histVars, confirmVars>>
    /\ UNCHANGED <<validate, min_lines, max_lines, entry, accepted, default_value>>

\* a readline that returned Err: interrupt, end of input or a read failure
InputReadError ==
    /\ pc = "active"
    /\ kind = "input"
    /\ Len(reads) < MaxReads
    /\ reads' = Append(reads, ReadFailed)
    /\ tty' = InputWCancel(ReadEcho(tty, ""))
    /\ cancel_calls' = IF cancel THEN cancel_calls + 1 ELSE cancel_calls
    /\ result' = <<"Err", "Cancelled">>
    /\ pc' = "done"
    /\ UNCHANGED <<cfgVars, navVars, raw, histVars, confirmVars>>
    /\ UNCHANGED <<validate, min_lines, max_lines, entry, prefill, is_val, accepted,
                 default_value, calls>>

\* =========================================================== MultiInput
\* MultiInput::min
MultiInputMin ==
    /\ pc = "config"
    /\ kind = "multi_input"
    /\ \E n \in 0..MaxLim : n # min_lines /\ min_lines' = n
    /\ UNCHANGED <<cfgVars, pc, navVars, outVars, histVars, confirmVars>>
    /\ UNCHANGED <<validate, max_lines, entry, prefill, is_val, accepted, reads,
                 default_value, calls>>

\* MultiInput::max
MultiInputMax ==
    /\ pc = "config"
    /\ kind = "multi_input"
    /\ \E n \in 0..MaxLim : n # max_lines /\ max_lines' = n
    /\ UNCHANGED <<cfgVars, pc, navVars, outVars, histVars, confirmVars>>
    /\ UNCHANGED <<validate, min_lines, entry, prefill, is_val, accepted, reads,
                 default_value, calls>>

\* n times println!(BAR)
RECURSIVE Bars(_, _)
Bars(T, n) == IF n <= 0 THEN T ELSE Bars(NewLine(Over(T, "bar")), n - 1)

\* mutant of MultiInputWLine: the accepted line is written on the old
\* input row's predecessor, so the frame does not grow
MultiInputWLine_NoGrow(T, value, amt) ==
    LET T1 == CursorUp(T, AsU16(amt + 2))
        T2 == StampLn(T1, <<"header", "STEP_ACTIVE">>)
        T3 == Bars(T2, amt - 1)
        T4 == StampLn(T3, <<"bar", value>>)
        T5 == NewLine(Over(T4, "bar"))
        T6 == Put(T5, <<"end">>)
    IN CursorUp(T6, 1)

\* MultiInput::w_line
MultiInputWLine(T, value, amt) ==
    LET T1 == CursorUp(T, AsU16(amt + 2))
        T2 == StampLn(T1, <<"header", "STEP_ACTIVE">>)
        T3 == Bars(T2, amt)
        T4 == StampLn(T3, <<"bar", value>>)
        T5 == NewLine(Over(T4, "bar"))
        T6 == Put(T5, <<"end">>)
    IN CursorUp(T6, 1)

\* MultiInput::w_val
MultiInputWVal(T, text, amt) ==
    LET T1 == CursorUp(T, AsU16(amt + 2))
        T2 == StampLn(T1, <<"header", "STEP_ERROR">>)
        T3 == Bars(T2, amt + 1)
        T4 == Put(T3, <<"end", text>>)
    IN CursorUp(T4, 1)

\* the value rows of MultiInput::w_out
RECURSIVE MultiInputOutRows(_, _, _)
MultiInputOutRows(T, values, i) ==
    IF i > Len(values) THEN T
    ELSE MultiInputOutRows(StampLn(T, <<"bar", Shown(entry, values[i])>>), values, i + 1)

\* MultiInput::w_out
MultiInputWOut(T, values) ==
    LET amt == Len(values)
        T1 == CursorUp(T, AsU16(AsU16(amt) + 2))
        T2 == StampLn(T1, <<"header", "STEP_SUBMIT">>)
        T3 == IF amt = 0 THEN NewLine(Over(T2, "bar")) ELSE T2
        T4 == MultiInputOutRows(T3, values, 1)
        T5 == ClearRows(T4, 2)
    IN CursorUp(T5, 2)

\* MultiInput::w_cancel
MultiInputWCancel(T, amt) ==
    LET T1 == CursorUp(T, 1)
        T2 == PrintLn(T1, <<"answer", "strikethrough", <<"cancelled">>>>)
        T3 == Put(T2, <<"blank">>)
        T4 == CursorUp(T3, AsU16(AsU16(amt) + 2))
        T5 == StampLn(T4, <<"header", "STEP_CANCEL">>)
        T6 == Bars(T5, amt)
    IN CursorDown(T6, 1)

\* interact() / parse() up to the first read: w_init, then Editor::new()?
\* of the first interact_once
MultiInputStart ==
    /\ pc = "config"
    /\ kind = "multi_input"
    /\ \E e \in {"interact", "parse"} : entry' = e
    /\ tty' = InputWInit(Begin(tty))
    /\ \E made \in BOOLEAN :
        IF made
        THEN /\ prefill' = initial_value
             /\ pc' = "active"
             /\ UNCHANGED result
        ELSE /\ result' = <<"Err", "ReadlineError">>
             /\ pc' = "done"
             /\ UNCHANGED prefill
    /\ UNCHANGED <<cfgVars, navVars, raw, cancel_calls, histVars, confirmVars>>
    /\ UNCHANGED <<validate, min_lines, max_lines, is_val, accepted, reads,
                 default_value, calls>>

\* mutant of MultiInputEnforces: an empty line is still rejected when
\* exactly the minimum is accepted
MultiInputEnforces_AtMin(amt, lo) == amt <= lo

\* let enforce_non_empty = amt < self.min
MultiInputEnforces(amt, lo) == amt < lo

\* the text of the rejection of an empty line
MinimumText(n) == "minimum " \o ToString(n)

\* one readline that returned Ok(l): the loop of interact_once, and for an
\* accepted line the arm of the caller's loop up to the next read
MultiInputReadLine ==
    /\ pc = "active"
    /\ kind = "multi_input"
    /\ Len(reads) < MaxReads
    /\ \E l \in Lines, made \in BOOLEAN :
        LET amt == AsU16(Len(accepted))
            T == ReadEcho(tty, l)
            r == InteractOnce(l, MultiInputEnforces(amt, min_lines), validate,
                              entry, MinimumText(min_lines))
        IN /\ reads' = Append(reads, l)
           /\ calls' = calls \o r.calls
           /\ CASE r.out = "again" ->
                    /\ made
                    /\ prefill' = r.prefill
                    /\ is_val' = TRUE
                    /\ tty' = MultiInputWVal(T, r.text, amt)
                    /\ UNCHANGED <<pc, result, accepted>>
                [] r.out = "none" ->
                    /\ made
                    /\ tty' = MultiInputWOut(T, accepted)
                    /\ result' = <<"Ok", accepted>>
                    /\ pc' = "done"
                    /\ UNCHANGED <<prefill, is_val, accepted>>
                [] r.out = "some" ->
                    LET v == Append(accepted, r.value)
                        T1 == MultiInputWLine(T, Shown(entry, r.value), amt)
                    IN /\ accepted' = v
                       /\ IF AsU16(Len(v)) = max_lines
                          THEN /\ made
                               /\ tty' = MultiInputWOut(NewLine(T1), v)
                               /\ result' = <<"Ok", v>>
                               /\ pc' = "done"
                               /\ UNCHANGED <<prefill, is_val>>
                          ELSE /\ tty' = T1
                               /\ prefill' = initial_value
                               /\ is_val' = FALSE
                               /\ IF made
                                  THEN UNCHANGED <<pc, result>>
                                  ELSE /\ result' = <<"Err", "ReadlineError">>
                                       /\ pc' = "done"
    /\ UNCHANGED <<cfgVars, navVars, raw, cancel_calls, histVars, confirmVars>>
    /\ UNCHANGED <<validate, min_lines, max_lines, entry, default_value>>

\* mutant of MultiInputReadError: the reader's error is handed on as it is
MultiInputReadError_HandedOn ==
    /\ pc = "active"
    /\ kind = "multi_input"
    /\ Len(reads) < MaxReads
    /\ reads' = Append(reads, ReadFailed)
    /\ tty' = ReadEcho(tty, "")
    /\ result' = <<"Err", "ReadlineError">>
    /\ pc' = "done"
    /\ UNCHANGED <<cfgVars, navVars, raw, cancel_calls, histVars, confirmVars>>
    /\ UNCHANGED <<validate, min_lines, max_lines, entry, prefill, is_val, accepted,
                 default_value, calls>>

\* a readline that returned Err: interrupt, end of input or a read failure
MultiInputReadError ==
    /\ pc = "active"
    /\ kind = "multi_input"
    /\ Len(reads) < MaxReads
    /\ reads' = Append(reads, ReadFailed)
    /\ tty' = MultiInputWCancel(ReadEcho(tty, ""), Len(accepted))
    /\ cancel_calls' = IF cancel THEN cancel_calls + 1 ELSE cancel_calls
    /\ result' = <<"Err", "Cancelled">>
    /\ pc' = "done"
    /\ UNCHANGED <<cfgVars, navVars, raw, histVars, confirmVars>>
    /\ UNCHANGED <<validate, min_lines, max_lines, entry, prefill, is_val, accepted,
                 default_value, calls>>


Next ==
    \/ Option
    \/ Options
    \/ Less
    \/ Cancel
    \/ SelectLessMax
    \/ SelectLessAmt
    \/ MultiSelectLessMax
    \/ MultiSelectLessAmt
    \/ SelectInteract
    \/ SelectKeyUp
    \/ SelectKeyDown
    \/ SelectKeyPageDown
    \/ SelectKeyPageUp
    \/ SelectKeyEnter
    \/ SelectKeyCtrlC
    \/ SelectKeyOther
    \/ SelectReadError
    \/ MultiSelectInteract
    \/ MultiSelectKeyUp
    \/ MultiSelectKeyDown
    \/ MultiSelectKeyPageDown
    \/ MultiSelectKeyPageUp
    \/ MultiSelectKeySpace
    \/ MultiSelectKeyEnter
    \/ MultiSelectKeyCtrlC
    \/ MultiSelectKeyOther
    \/ MultiSelectReadError
    \/ ConfirmInitialValue
    \/ ConfirmPrompts
    \/ ConfirmInteract
    \/ ConfirmKeyArrow
    \/ ConfirmKeyYes
    \/ ConfirmKeyNo
    \/ ConfirmKeyEnter
    \/ ConfirmKeyCtrlC
    \/ ConfirmKeyOther
    \/ ConfirmReadError
    \/ InputInitialValue
    \/ InputValidate
    \/ InputDefaultValue
    \/ InputStart
    \/ InputReadLine
    \/ InputReadError
    \/ MultiInputMin
    \/ MultiInputMax
    \/ MultiInputStart
    \/ MultiInputReadLine
    \/ MultiInputReadError

Spec == Init /\ [][Next]_vars

\* -------------------------------------------- interactions with a key log
\* a list prompt as the builder calls leave it: one to MaxKeyOpts options,
\* paging off or set by less_amt, the keys of the interaction recorded
InitKeys ==
    /\ kind \in ListKinds
    /\ tracing = TRUE
    /\ \E n \in 1..MaxKeyOpts : options = [i \in 1..n |-> NewOpt(i)]
    /\ less_amt \in {None} \cup {Some(n) : n \in 1..(MaxKeyOpts - 1)}
    /\ less = IsSome(less_amt)
    /\ less_max = None
    /\ cancel = FALSE
    /\ initial_value = None
    /\ prompts = <<"yes", "no">>
    /\ validate = FALSE
    /\ default_value = None
    /\ min_lines = 1
    /\ max_lines = U16 - 1
    /\ columns = Some(WideColumns)
    /\ unicode = TRUE
    /\ tty \in EdgeTerminals \cup {Canvas(MinRows, MaxBefore), Canvas(MaxRows, 0)}
    /\ Fresh

\* interact() of the two list prompts
NextKeys ==
    \/ SelectInteract
    \/ SelectKeyUp
    \/ SelectKeyDown
    \/ SelectKeyPageDown
    \/ SelectKeyPageUp
    \/ SelectKeyEnter
    \/ SelectKeyCtrlC
    \/ SelectKeyOther
    \/ SelectReadError
    \/ MultiSelectInteract
    \/ MultiSelectKeyUp
    \/ MultiSelectKeyDown
    \/ MultiSelectKeyPageDown
    \/ MultiSelectKeyPageUp
    \/ MultiSelectKeySpace
    \/ MultiSelectKeyEnter
    \/ MultiSelectKeyCtrlC
    \/ MultiSelectKeyOther
    \/ MultiSelectReadError

SpecKeys == InitKeys /\ [][NextKeys]_vars

\* ---------------------------------------- interactions on a failing stdout
\* a key prompt as the builder calls leave it
InitIo ==
    /\ kind \in ListKinds \cup {"confirm"}
    /\ tracing = FALSE
    /\ \E n \in 1..MaxKeyOpts :
        options = (IF kind = "confirm" THEN <<>> ELSE [i \in 1..n |-> NewOpt(i)])
    /\ less_amt \in (IF kind = "confirm" THEN {None}
                     ELSE {None} \cup {Some(n) : n \in 1..(MaxKeyOpts - 1)})
    /\ less = IsSome(less_amt)
    /\ less_max = None
    /\ cancel \in BOOLEAN
    /\ initial_value \in (IF kind = "confirm" THEN BOOLEAN ELSE {None})
    /\ prompts = <<"yes", "no">>
    /\ validate = FALSE
    /\ default_value = None
    /\ min_lines = 1
    /\ max_lines = U16 - 1
    /\ columns = Some(WideColumns)
    /\ unicode = TRUE
    /\ tty \in EdgeTerminals
    /\ Fresh

\* stdout starts to fail once the frame is painted, before the first key
\* (a closed pipe or terminal): every key is handled on a failing stdout
StdoutFails ==
    /\ pc = "active"
    /\ last.key = "none"
    /\ stdout_ok
    /\ stdout_ok' = FALSE
    /\ UNCHANGED <<cfgVars, pc, navVars, outVars, promptVars>>
    /\ UNCHANGED <<last, run_start, run_len, keys, tracing, first, columns, unicode>>

\* interact() of the three key prompts, with the failure of stdout
NextIo ==
    \/ NextKeys
    \/ ConfirmInteract
    \/ ConfirmKeyArrow
    \/ ConfirmKeyYes
    \/ ConfirmKeyNo
    \/ ConfirmKeyEnter
    \/ ConfirmKeyCtrlC
    \/ ConfirmKeyOther
    \/ ConfirmReadError
    \/ StdoutFails

SpecIo == InitIo /\ [][NextIo]_vars

\* ------------------------------------------------ the line-reader prompts
\* a text input or a multi-line input as its constructor leaves it
InitLines ==
    /\ Init
    /\ kind \in {"input", "multi_input"}

NextLines ==
    \/ Cancel
    \/ InputInitialValue
    \/ InputValidate
    \/ InputDefaultValue
    \/ InputStart
    \/ InputReadLine
    \/ InputReadError
    \/ MultiInputMin
    \/ MultiInputMax
    \/ MultiInputStart
    \/ MultiInputReadLine
    \/ MultiInputReadError

SpecLines == InitLines /\ [][NextLines]_vars

\* ------------------------------------------ a second interact() on a prompt
\* interact(&self) is called again on the same list prompt after it has
\* returned with the terminal back in cooked mode: the locals of the first
\* call are gone, the configuration and the terminal are what the first
\* call left
Again ==
    /\ pc = "done"
    /\ tracing
    /\ ~raw
    /\ first = None
    /\ Len(keys) <= MaxAgainKeys
    /\ first' = Some([keys |-> keys, result |-> result, term |-> term])
    /\ pc' = "config"
    /\ term' = Unasked
    /\ is_less' = None
    /\ idx' = 0
    /\ less_idx' = 0
    /\ opts' = <<>>
    /\ cancel_calls' = 0
    /\ result' = None
    /\ last' = [key |-> "none", idx |-> 0, less_idx |-> 0]
    /\ run_start' = 0
    /\ run_len' = 0
    /\ keys' = <<>>
    /\ UNCHANGED <<cfgVars, raw, tty, tracing, stdout_ok, columns, unicode, promptVars>>

NextAgain ==
    \/ NextKeys
    \/ Again

SpecAgain == InitKeys /\ [][NextAgain]_vars

\* ------------------------------------------------ the text of option rows
\* characters of the labels and hints
Letters == <<"A", "l", "p", "h", "a", "b", "e", "t", "s">>
\* the text of n characters
Text(n) == SubSeq(Letters, 1, n)

\* a list prompt holding one option, with or without a hint, on a terminal
\* whose size probe fails or answers a width from 0 on
InitTrunc ==
    /\ kind \in ListKinds
    /\ tracing = FALSE
    /\ \E n \in 0..MaxLabel, h \in -1..MaxHint :
        options = <<[value |-> "a", label |-> Text(n),
                     hint |-> IF h < 0 THEN None ELSE Some(Text(h)),
                     active |-> FALSE]>>
    /\ columns \in {None} \cup {Some(c) : c \in 0..MaxColumns}
    /\ unicode \in BOOLEAN
    /\ less = FALSE
    /\ less_amt = None
    /\ less_max = None
    /\ cancel = FALSE
    /\ initial_value = None
    /\ prompts = <<"yes", "no">>
    /\ validate = FALSE
    /\ default_value = None
    /\ min_lines = 1
    /\ max_lines = U16 - 1
    /\ tty \in EmptyTerminals
    /\ Fresh

\* the option's row is painted in one of its two forms
NextTrunc ==
    \/ SelectFocusRow
    \/ SelectUnfocusRow
    \/ MultiSelectFocusRow
    \/ MultiSelectUnfocusRow

SpecTrunc == InitTrunc /\ [][NextTrunc]_vars

\* ================================================================ claims
\* interact() is in its key loop with paging active
Paged == pc = "active" /\ IsSome(is_less)
\* the window size of a paged interaction
WinSize == Unwrap(is_less)
\* the number of configured options
OptLen == Len(options)
\* the last key was `key` and interact() is still in its key loop
Acted(key) == pc = "active" /\ last.key = key

\* the rows written so far, the ones that scrolled off the terminal included
Rows == DOMAIN tty.scr
\* row r of the running prompt, counted from the row the prompt started on
Row(r) == tty.scr[tty.org + r]
\* what the terminal shows: the rows, the window on them and the cursor
Screen(T) == <<T.scr, T.top, T.cur>>
\* nothing was written to the terminal
Untouched == tty = Canvas(tty.rows, tty.cur)
\* the rows of the frame of a list prompt: the bar, the header, the options
\* or the window with its progress line, and the bottom bar
FrameRows == IF IsSome(is_less) THEN Unwrap(is_less) + 4 ELSE Len(options) + 3
\* the terminal is at least as tall as the frame of the list prompt
Roomy == tty.rows >= FrameRows
\* the terminal is at least as tall as the frame of the multi-line input
LinesRoomy == tty.rows >= Len(accepted) + 4

\* C1: in paged mode every reachable state has 0 <= less_idx < window size,
\* less_idx <= idx < len and idx - less_idx + window size <= len, and no
\* option lookup or unsigned subtraction of the repaint ever fails.
C1_WindowInBounds ==
    /\ tty.ok
    /\ Paged => /\ 0 <= less_idx
                /\ less_idx < WinSize
                /\ less_idx <= idx
                /\ idx < OptLen
                /\ idx - less_idx + WinSize <= OptLen

\* C1 witness: a page jump has scrolled the window away from the top with
\* the focus below the window's first row
C1_Witness ==
    /\ Paged
    /\ last.key = "PageDown"
    /\ idx - less_idx > 0
    /\ less_idx > 0

\* C2: after N consecutive Down keys from index i the focus index is
\* (i + N) mod len, paged or not, in select and multi-select.
C2_WrapAroundLaw ==
    (pc = "active" /\ run_len > 0) => idx = (run_start + run_len) % OptLen

\* C2 witness: a full run of Down keys that went past the last option
C2_Witness ==
    /\ pc = "active"
    /\ run_len = MaxRun
    /\ idx < run_start
    /\ OptLen > 1

\* C3: a paged Down step that does not wrap increments less_idx unless it is
\* window size - 1 already; a Down step from the last option resets it to 0.
C3_DownOffset ==
    (Paged /\ last.key = "Down") =>
        IF last.idx < OptLen - 1
        THEN less_idx = (IF last.less_idx = WinSize - 1
                         THEN last.less_idx ELSE last.less_idx + 1)
        ELSE less_idx = 0

\* C3 witness: a Down step taken with the focus on the window's last row,
\* not at the end of the list
C3_Witness ==
    /\ Paged
    /\ last.key = "Down"
    /\ last.less_idx = WinSize - 1
    /\ last.idx < OptLen - 1
    /\ WinSize > 1

\* C4: an Up step sets idx to (idx - 1) mod len, paged or not; in paged mode
\* less_idx decrements unless it is 0, and becomes window size - 1 on the
\* wrap from the first option to the last.
C4_UpStep ==
    Acted("Up") =>
        /\ idx = (last.idx + OptLen - 1) % OptLen
        /\ IsSome(is_less) =>
               less_idx = (IF last.idx = 0 THEN WinSize - 1
                           ELSE IF last.less_idx = 0 THEN 0
                           ELSE last.less_idx - 1)

\* C4 witness: a paged Up step from the first option
C4_Witness ==
    /\ Paged
    /\ last.key = "Up"
    /\ last.idx = 0
    /\ idx = OptLen - 1
    /\ WinSize > 1

\* C5: PageDown sets idx to min(idx + window size, len - 1); when the jump
\* overruns the end less_idx is window size - 1 and the last option is the
\* last visible row; otherwise less_idx is kept unless the window would
\* reach past the last option, and is then raised just enough that the last
\* option is the last visible row.
C5_PageDown ==
    (Paged /\ last.key = "PageDown") =>
        /\ idx = Min(last.idx + WinSize, OptLen - 1)
        /\ IF last.idx + WinSize > OptLen - 1
           THEN /\ less_idx = WinSize - 1
                /\ idx - less_idx + WinSize = OptLen
           ELSE IF idx - last.less_idx + WinSize > OptLen
                THEN idx - less_idx + WinSize = OptLen
                ELSE less_idx = last.less_idx

\* C5 witness: a jump that stays inside the list and has its offset raised
C5_Witness ==
    /\ Paged
    /\ last.key = "PageDown"
    /\ last.idx + WinSize < OptLen - 1
    /\ less_idx > last.less_idx

\* C6: PageUp sets idx to max(idx - window size, 0).
C6_PageUpIndex ==
    (Paged /\ last.key = "PageUp") => idx = Max(last.idx - WinSize, 0)

\* C6 witness: a PageUp that lands above the first option's neighbour
C6_Witness ==
    /\ Paged
    /\ last.key = "PageUp"
    /\ last.idx > WinSize
    /\ idx > 0

\* C7 as stated: after a PageUp that lands on idx <= window size, less_idx
\* is 0.
C7_Original ==
    (Paged /\ last.key = "PageUp" /\ idx <= WinSize) => less_idx = 0

\* C7 amended: after a PageUp taken from idx <= window size, idx and
\* less_idx are 0; after any other PageUp less_idx is the smaller of its old
\* value and the new idx.
C7_PageUpOffset ==
    (Paged /\ last.key = "PageUp") =>
        IF last.idx <= WinSize
        THEN idx = 0 /\ less_idx = 0
        ELSE less_idx = Min(last.less_idx, idx)

\* C7 witness: a PageUp landed at or before window size with the focus not
\* on the window's first row
C7_Witness ==
    /\ Paged
    /\ last.key = "PageUp"
    /\ idx <= WinSize
    /\ less_idx > 0

\* the labels painted on the w window rows, top to bottom
WindowLabels(w) == [k \in 1..w |-> Row(1 + k)[2]]

\* C8: window size 3 over 5 options, PageDown from idx 0 and less_idx 0:
\* idx is 3, the window shows options 2, 3, 4 (less_idx 1) and the progress
\* line reads 4/5 (the rows are read on a terminal that holds the frame).
C8_PageDownExample ==
    (/\ Paged
     /\ Roomy
     /\ WinSize = 3
     /\ OptLen = 5
     /\ last = [key |-> "PageDown", idx |-> 0, less_idx |-> 0]) =>
        /\ idx = 3
        /\ less_idx = 1
        /\ WindowLabels(3) = <<options[3].label, options[4].label, options[5].label>>
        /\ Row(5) = <<"progress", <<4>>, <<5>>>>

\* C8 witness: that PageDown has been pressed
C8_Witness ==
    /\ Paged
    /\ WinSize = 3
    /\ OptLen = 5
    /\ last = [key |-> "PageDown", idx |-> 0, less_idx |-> 0]
    /\ idx = 3
    /\ Roomy
    /\ tty.org > 0

\* the window size the configuration asks for, when it names one
AskedWindow ==
    IF IsSome(less_amt) THEN less_amt
    ELSE IF term # Unasked /\ IsSome(term)
         THEN LET r == IF term[1] >= 4 THEN term[1] - 4 ELSE 0
              IN Some(IF IsSome(less_max) /\ less_max[1] < r THEN less_max[1] ELSE r)
         ELSE None

\* C9: paging is active only if the option count exceeds the window size:
\* with len <= window size mk_less yields None, and the initial frame then
\* lists every option (on a terminal that holds the frame).
C9_NoPagingForShortLists ==
    pc = "active" =>
        /\ IsSome(is_less) => OptLen > WinSize
        /\ (less /\ IsSome(AskedWindow) /\ OptLen <= AskedWindow[1]) => is_less = None
        /\ (is_less = None /\ last.key = "none" /\ Roomy) =>
               \A k \in 1..OptLen :
                   /\ Row(1 + k)[1] = "opt"
                   /\ Row(1 + k)[2] = options[k].label

\* C9 witness: less_amt equal to the option count, and no paging
C9_Witness ==
    /\ pc = "active"
    /\ IsSome(less_amt)
    /\ OptLen = less_amt[1]
    /\ is_less = None
    /\ Roomy

\* C10: without less_amt the window size is the terminal row count minus 4
\* (not below 0) capped by less_max; with less_amt it is that amount; when
\* the terminal size is unavailable and no amount is set there is no paging.
C10_WindowSize ==
    (pc = "active" /\ less) =>
        IF IsSome(less_amt)
        THEN is_less = (IF OptLen > less_amt[1] THEN less_amt ELSE None)
        ELSE IF term = None
             THEN is_less = None
             ELSE /\ term # Unasked
                  /\ LET r == IF term[1] >= 4 THEN term[1] - 4 ELSE 0
                         d == IF IsSome(less_max) /\ less_max[1] < r
                              THEN less_max[1] ELSE r
                     IN is_less = (IF d > 0 /\ OptLen > d THEN Some(d) ELSE None)

\* C10 witness: paging with a window derived from the terminal and capped
\* by less_max
C10_Witness ==
    /\ pc = "active"
    /\ less_amt = None
    /\ IsSome(less_max)
    /\ term # Unasked
    /\ IsSome(term)
    /\ term[1] - 4 > less_max[1]
    /\ is_less = less_max

\* C11: paged mode never has window size 0: less_amt and less_max only
\* ever hold amounts of at least 1 (a call with 0 panics and stores
\* nothing), a terminal of 4 rows or fewer leaves paging inactive, and the
\* window of every paged interaction is at least 1.
C11_WindowNeverZero ==
    /\ IsSome(less_amt) => less_amt[1] >= 1
    /\ IsSome(less_max) => less_max[1] >= 1
    /\ IsSome(is_less) => is_less[1] >= 1
    /\ (IsSome(term) /\ term # Unasked /\ term[1] <= CHROME) => is_less = None

\* C11 witness: interact() runs on a terminal too short for any list row,
\* with paging requested and options configured, and does not page
C11_Witness ==
    /\ pc = "active"
    /\ kind = "select"
    /\ less
    /\ OptLen > 1
    /\ IsSome(term)
    /\ term # Unasked
    /\ term[1] <= CHROME
    /\ is_less = None

\* C12: interact() of a select or multi-select without options returns
\* NoOptions with the terminal untouched: nothing painted, the size probe
\* not asked, raw mode never entered, no key read; and NoOptions is
\* returned in no other case.
C12_NoOptionsFailsFast ==
    /\ (kind \in ListKinds /\ OptLen = 0 /\ pc \notin {"config", "panicked"}) =>
            /\ pc = "done"
            /\ result = <<"Err", "NoOptions">>
            /\ Untouched
            /\ term = Unasked
            /\ ~raw
            /\ last.key = "none"
    /\ (kind \in ListKinds /\ pc = "done" /\ OptLen > 0) =>
            result # <<"Err", "NoOptions">>

\* C12 witness: a multi-select with paging and a cancel callback configured
\* but no option has returned NoOptions
C12_Witness ==
    /\ kind = "multi_select"
    /\ less
    /\ cancel
    /\ OptLen = 0
    /\ result = <<"Err", "NoOptions">>

\* the focus index a non-paged list of n options reaches from index i by
\* the keys ks: Down steps forward, Up back, both wrap, other keys stay
RECURSIVE FocusAfter(_, _, _)
FocusAfter(ks, n, i) ==
    IF ks = <<>> THEN i
    ELSE FocusAfter(Tail(ks), n,
                    CASE Head(ks) = "Down" -> (i + 1) % n
                      [] Head(ks) = "Up" -> (i + n - 1) % n
                      [] OTHER -> i)

\* the indexes a non-paged list has toggled an odd number of times after
\* the keys ks, starting at focus i with the set odd
RECURSIVE OddToggles(_, _, _, _)
OddToggles(ks, n, i, odd) ==
    IF ks = <<>> THEN odd
    ELSE OddToggles(Tail(ks), n, FocusAfter(<<Head(ks)>>, n, i),
                    IF Head(ks) = "Space"
                    THEN (IF i \in odd THEN odd \ {i} ELSE odd \cup {i})
                    ELSE odd)

\* the pushed values, in push order, of the indexes (from 0) in the set
RECURSIVE ValuesOf(_, _, _)
ValuesOf(set, i, n) ==
    IF i >= n THEN <<>>
    ELSE (IF i \in set THEN <<OptValues[i + 1]>> ELSE <<>>) \o ValuesOf(set, i + 1, n)

\* interact() returned Ok
Submitted == pc = "done" /\ result # None /\ result[1] = "Ok"

\* C13: a select that ends on Enter returns the value, not the label, of
\* the option at the focus index; without paging that index is the one the
\* recorded keys lead to from 0; for the two options (a, Alpha), (b, Beta)
\* the keys Down, Enter return b.
C13_EnterReturnsFocusedValue ==
    (kind = "select" /\ Submitted) =>
        /\ last.key = "Enter"
        /\ keys[Len(keys)] = "Enter"
        /\ result[2] = OptValues[idx + 1]
        /\ result[2] # OptLabels[idx + 1]
        /\ ~IsSome(is_less) => idx = FocusAfter(keys, OptLen, 0)
        /\ (OptLen = 2 /\ keys = <<"Down", "Enter">>) => result = <<"Ok", "b">>

\* C13 witness: two options, the keys Down and Enter, and b returned
C13_Witness ==
    /\ kind = "select"
    /\ OptLen = 2
    /\ keys = <<"Down", "Enter">>
    /\ result = <<"Ok", "b">>

\* C14: a multi-select that ends on Enter returns the values of exactly the
\* options whose active flag is set, in list order; without paging these
\* are the options toggled an odd number of times by the recorded keys; for
\* the two options (a, A), (b, B) the keys Space, Down, Space, Enter
\* return [a, b].
C14_ActiveValuesInListOrder ==
    (kind = "multi_select" /\ Submitted) =>
        /\ result[2] = ValuesOf({i \in 0..(OptLen - 1) : opts[i + 1].active}, 0, OptLen)
        /\ ~IsSome(is_less) =>
              result[2] = ValuesOf(OddToggles(keys, OptLen, 0, {}), 0, OptLen)
        /\ (OptLen = 2 /\ keys = <<"Space", "Down", "Space", "Enter">>) =>
              result = <<"Ok", <<"a", "b">>>>

\* C14 witness: the second option was toggled before the first, and the
\* answer is still in list order
C14_Witness ==
    /\ kind = "multi_select"
    /\ OptLen = 2
    /\ keys = <<"Down", "Space", "Up", "Space", "Enter">>
    /\ result = <<"Ok", <<"a", "b">>>>

\* the indexes (from 0) at which the keys ks pressed Space an even number
\* of times on a non-paged list of n options
EvenToggles(ks, n) == (0..(n - 1)) \ OddToggles(ks, n, 0, {})

\* C15: a Space step flips the active flag of the focused option and
\* nothing else of the interaction (focus index, window offset, the other
\* flags, values and labels); every other key step leaves all flags as
\* they were; an option toggled an even number of times is not in the
\* submitted sequence.
C15_SpaceTogglesFocusOnly ==
    /\ [][(kind = "multi_select" /\ pc = "active" /\ pc' = "active") =>
            IF last'.key = "Space"
            THEN /\ idx' = idx
                 /\ less_idx' = less_idx
                 /\ opts' = [opts EXCEPT ![idx + 1].active = ~opts[idx + 1].active]
            ELSE opts' = opts]_vars
    /\ []((kind = "multi_select" /\ Submitted /\ ~IsSome(is_less)) =>
            \A i \in EvenToggles(keys, OptLen) :
                \A j \in 1..Len(result[2]) : result[2][j] # OptValues[i + 1])

\* C15 witness: the first option was toggled twice and nothing is submitted
C15_Witness ==
    /\ kind = "multi_select"
    /\ keys = <<"Space", "Space", "Enter">>
    /\ result = <<"Ok", <<>>>>

\* interact() returned the error `name`
Failed(name) == pc = "done" /\ result # None /\ result[1] = "Err" /\ result[2] = name

\* the last event the prompt read was a cancellation: Ctrl-C (Ctrl-D in
\* confirm) on a key prompt, a failed read on the line reader
LastEventCancels ==
    IF kind \in {"input", "multi_input"}
    THEN reads # <<>> /\ reads[Len(reads)] = ReadFailed
    ELSE last.key = "CtrlC"

\* the row starts with the text printed last on it; on a terminal shorter
\* than the frame the end of an older, wider row may remain to its right
StartsWith(row, cell) == row = cell \/ (row[1] = "over" /\ row[2] = cell)

\* the terminal shows a cancel frame: the header with the cancel marker and
\* a struck-through answer line below it
CancelFramePainted ==
    \E r \in Rows :
        /\ StartsWith(tty.scr[r], <<"header", "STEP_CANCEL">>)
        /\ \E q \in Rows :
            /\ q > r
            /\ Len(tty.scr[q]) >= 2
            /\ tty.scr[q][1] = "answer"
            /\ tty.scr[q][2] = "strikethrough"

\* C16: in select, confirm, text input and multi-line input a cancellation
\* that is not cut short by an I/O error of leaving raw mode ends the
\* prompt: the cancel frame is painted (by the multi-line input on a
\* terminal that holds its frame), the configured callback has run
\* exactly once (never more, and not at all when none is configured),
\* Cancelled is returned and the cancellation is the last event read; the
\* callback has not run in any state that is not a cancellation.
C16_CancelPaintsCallsReturns ==
    (kind \in {"select", "confirm", "input", "multi_input"}) =>
        /\ cancel_calls <= 1
        /\ (LastEventCancels /\ ~Failed("IoError")) =>
                /\ Failed("Cancelled")
                /\ (kind = "multi_input" => LinesRoomy) => CancelFramePainted
                /\ cancel_calls = (IF cancel THEN 1 ELSE 0)
        /\ Failed("Cancelled") => LastEventCancels
        /\ ~Failed("Cancelled") => cancel_calls = 0

\* C16 witness: a paged select cancelled away from the first option, with
\* a callback configured
C16_Witness ==
    /\ kind = "select"
    /\ IsSome(is_less)
    /\ idx > 0
    /\ less_idx > 0
    /\ cancel
    /\ cancel_calls = 1
    /\ Failed("Cancelled")
    /\ CancelFramePainted

\* C17: once Ctrl-C was handled by multi-select and raw mode was left,
\* interact() has returned Cancelled.
C17_MultiSelectCancelReturns ==
    (kind = "multi_select" /\ last.key = "CtrlC" /\ ~raw) =>
        Failed("Cancelled")

\* interact() returned after raw mode was entered: by a submit, by a
\* cancellation, or by an I/O error that is not the one of disable_raw_mode
ExitedKeyLoop ==
    /\ kind \in ListKinds \cup {"confirm"}
    /\ \/ Submitted
       \/ Failed("Cancelled")
       \/ Failed("IoError") /\ last.key \notin {"Enter", "CtrlC", "y", "n"}

\* C18: when interact() of select, multi-select or confirm has returned on
\* one of these paths, raw mode is off, and confirm's cursor is shown again.
C18_RawModeRestored ==
    ExitedKeyLoop =>
        /\ ~raw
        /\ kind = "confirm" => ~hidden

\* the keys whose arm repaints before anything else can fail
RepaintKeys == {"Up", "Down", "Space", "Arrow"}
\* the keys whose arm repaints a paged list and does nothing otherwise
PageKeys == {"PageUp", "PageDown"}
\* the keys whose arm leaves raw mode and paints the final frame
FinalKeys == {"Enter", "CtrlC", "y", "n"}
\* the arm of the key writes to the terminal
Writes(key) ==
    \/ key \in RepaintKeys \cup FinalKeys
    \/ key \in PageKeys /\ IsSome(is_less)

\* C19: a terminal I/O failure during a prompt is surfaced to the caller
\* as an I/O error and ends the interaction: a step that ends the key loop
\* without handling a key (the failed key read) returns the I/O error, and
\* a key whose arm writes to a failing stdout (a repaint, or the final
\* frame) makes interact() return the I/O error.
C19_IoFailureSurfaced ==
    /\ [][(pc = "active" /\ pc' = "done" /\ last' = last) =>
            result' = <<"Err", "IoError">>]_vars
    /\ [][(pc = "active" /\ ~stdout_ok /\ Writes(last'.key)) =>
            (pc' = "done" /\ result' = <<"Err", "IoError">>)]_vars

\* what the handlers do with the failures of C19: the failed key read
\* returns the I/O error with the terminal as it was; a repaint on a
\* failing stdout leaves the key loop running with the screen as it was,
\* or the print macro panics (always when the list is paged); a final key
\* panics in the print of the final frame, unless leaving raw mode failed
\* first, which returns the I/O error with raw mode still on.
C19_WriteFailuresLost ==
    /\ [][(pc = "active" /\ pc' = "done" /\ last' = last) =>
            (result' = <<"Err", "IoError">> /\ tty' = tty)]_vars
    /\ [][(pc = "active" /\ ~stdout_ok /\ last' # last
            /\ last'.key \in RepaintKeys \cup PageKeys) =>
            \/ pc' = "active" /\ Screen(tty') = Screen(tty)
            \/ pc' = "panicked"]_vars
    /\ [][(pc = "active" /\ ~stdout_ok /\ last' # last /\ last'.key \in PageKeys
            /\ IsSome(is_less)) => pc' = "panicked"]_vars
    /\ [][(pc = "active" /\ ~stdout_ok /\ last'.key \in FinalKeys) =>
            \/ pc' = "panicked"
            \/ pc' = "done" /\ result' = <<"Err", "IoError">> /\ raw']_vars

\* C20: in confirm the current boolean is the initial value after an even
\* number of directional keys and its negation after an odd number, and
\* Enter submits the current boolean.
C20_ConfirmParity ==
    (kind = "confirm" /\ pc \in {"active", "done"} /\ raw) \/
    (kind = "confirm" /\ Submitted) =>
        LET current == IF flips % 2 = 0 THEN initial_value ELSE ~initial_value
        IN /\ val = current
           /\ (Submitted /\ last.key = "Enter") => result = <<"Ok", current>>

\* C20 witness: three directional keys and Enter on a confirm that started
\* at true
C20_Witness ==
    /\ kind = "confirm"
    /\ initial_value = TRUE
    /\ flips = 3
    /\ last.key = "Enter"
    /\ result = <<"Ok", FALSE>>

\* C21: in confirm the key y (or Y) ends the prompt with Ok(true) and the
\* key n (or N) with Ok(false), whatever the initial value and the current
\* toggled value are (unless leaving raw mode fails, which returns the I/O
\* error).
C21_YesNoSubmit ==
    (kind = "confirm" /\ last.key \in {"y", "n"} /\ ~Failed("IoError")) =>
        /\ pc = "done"
        /\ result = <<"Ok", last.key = "y">>

\* C21 witness: n pressed while the toggle stands at true after one flip
\* from the initial false, and y pressed while it stands at false
C21_Witness ==
    /\ kind = "confirm"
    /\ flips = 1
    /\ \/ initial_value = FALSE /\ val = TRUE /\ last.key = "n"
          /\ result = <<"Ok", FALSE>>
       \/ initial_value = TRUE /\ val = FALSE /\ last.key = "y"
          /\ result = <<"Ok", TRUE>>

\* the last line the line reader returned
LastRead == reads[Len(reads)]

\* a submitted line that is not empty, passes the validator and parses
Acceptable(l) ==
    /\ l # ""
    /\ l # ReadFailed
    /\ ~IsSome(DoValidate(validate, l))
    /\ IsSome(ParseAs(entry, l))

\* C22: a required text input (required() or parse()) without a default
\* value is still reading as long as no acceptable line was submitted, the
\* unreachable!() arms are never reached, and when it returns Ok the value
\* is that of the last line read, which is the first acceptable one.
C22_RequiredReturnsFirstAcceptable ==
    (kind = "input" /\ entry \in {"required", "parse"} /\ default_value = None) =>
        /\ pc # "panicked"
        /\ (reads # <<>> /\ LastRead # ReadFailed /\ ~Acceptable(LastRead)) =>
                pc = "active"
        /\ Submitted =>
                /\ reads # <<>>
                /\ Acceptable(LastRead)
                /\ \A i \in 1..(Len(reads) - 1) : ~Acceptable(reads[i])
                /\ result = <<"Ok", Unwrap(ParseAs(entry, LastRead))>>

\* C22 witness: parse() with a validator returned the fourth line after an
\* empty line, a line the validator rejects and a line that does not parse
C22_Witness ==
    /\ kind = "input"
    /\ entry = "parse"
    /\ validate
    /\ reads = <<"", "no", "x", "7">>
    /\ pc = "done"
    /\ result = <<"Ok", 7>>

\* C23: a text input with a default value returns the default value on an
\* empty line, at once: interact() as Some(default), required() as the
\* default itself.
C23_EmptyReturnsDefault ==
    (kind = "input" /\ IsSome(default_value) /\ reads # <<>> /\ LastRead = "") =>
        /\ pc = "done"
        /\ entry = "interact" => result = <<"Ok", default_value>>
        /\ entry = "required" => result = <<"Ok", Unwrap(default_value)>>

\* C23 witness: required() with a default value returned it on the first,
\* empty, line
C23_Witness ==
    /\ kind = "input"
    /\ entry = "required"
    /\ default_value = Some("default")
    /\ reads = <<"">>
    /\ result = <<"Ok", "default">>

\* C24: while a text input is reading, the next read is pre-filled with the
\* configured initial value before the first line, with nothing after a
\* rejected empty line, and with exactly the rejected text after a line the
\* validator or the parser rejected.
C24_PrefillIsRejectedText ==
    (kind = "input" /\ pc = "active") =>
        prefill = (IF reads = <<>> THEN initial_value
                   ELSE IF LastRead = "" THEN None
                   ELSE Some(LastRead))

\* C24 witness: an initial value is configured, a line that does not parse
\* was kept, and then an empty line cleared the pre-fill; and a rejected
\* line other than the initial value is the pre-fill
C24_Witness ==
    /\ kind = "input"
    /\ pc = "active"
    /\ initial_value = Some("7")
    /\ \/ Len(reads) = 2 /\ reads[1] = "x" /\ reads[2] = "" /\ prefill = None
       \/ reads = <<"no">> /\ prefill = Some("no")

\* C25: an optional text input (interact() or maybe_parse()) without a
\* default value returns Ok(None) on an empty line; the validator is only
\* ever called on a non-empty line that was read, and the parser only on
\* a line the validator did not reject, right after the validator's call.
C25_OptionalEmptyIsNone ==
    (kind = "input") =>
        /\ (entry \in {"interact", "maybe_parse"} /\ default_value = None
            /\ reads # <<>> /\ LastRead = "") =>
                (Submitted /\ result[2] = None)
        /\ \A i \in 1..Len(calls) :
            /\ calls[i][2] # ""
            /\ \E j \in 1..Len(reads) : reads[j] = calls[i][2]
            /\ calls[i][1] = "validate" => validate
            /\ calls[i][1] = "parse" =>
                /\ ~IsSome(DoValidate(validate, calls[i][2]))
                /\ validate => (i > 1 /\ calls[i - 1] = <<"validate", calls[i][2]>>)

\* C25 witness: maybe_parse() with a validator returned None on an empty
\* line after a rejected and an unparsable line
C25_Witness ==
    /\ kind = "input"
    /\ entry = "maybe_parse"
    /\ validate
    /\ reads = <<"no", "x", "">>
    /\ calls = << <<"validate", "no">>, <<"validate", "x">>, <<"parse", "x">> >>
    /\ Submitted
    /\ result[2] = None

\* C26: text input and multi-line input never panic and return only Ok,
\* Cancelled or the line reader's error; after a line the validator or the
\* parser rejected the prompt is reading again.
C26_FailuresReprompt ==
    (kind \in {"input", "multi_input"}) =>
        /\ pc # "panicked"
        /\ pc = "done" =>
                (Submitted \/ Failed("Cancelled") \/ Failed("ReadlineError"))
        /\ (reads # <<>> /\ LastRead \notin {"", ReadFailed}
            /\ ~Acceptable(LastRead)) => pc = "active"

\* C26 witness: a multi-line input is reading again after a line that does
\* not parse and a line the validator rejects
C26_Witness ==
    /\ kind = "multi_input"
    /\ entry = "parse"
    /\ validate
    /\ reads = <<"x", "no">>
    /\ pc = "active"

\* the values of the acceptable lines among the first n lines read
RECURSIVE Kept(_)
Kept(n) ==
    IF n = 0 THEN <<>>
    ELSE IF Acceptable(reads[n])
         THEN Append(Kept(n - 1), Unwrap(ParseAs(entry, reads[n])))
         ELSE Kept(n - 1)

\* the 'minimum N' message is on the terminal
MinimumShown == \E r \in Rows : tty.scr[r] = <<"end", MinimumText(min_lines)>>

\* C27: in multi-line input an empty line read while fewer than min lines
\* are accepted is rejected with the 'minimum N' message and the prompt
\* reads again; an empty line read once min lines are accepted ends the
\* prompt with exactly the accepted lines in the order they were entered.
C27_MinimumThenEmptyEnds ==
    (kind = "multi_input" /\ reads # <<>> /\ LastRead = "") =>
        LET before == Kept(Len(reads) - 1)
        IN IF Len(before) < min_lines
           THEN /\ pc = "active"
                /\ MinimumShown
                /\ accepted = before
           ELSE /\ pc = "done"
                /\ result = <<"Ok", before>>

\* C27 witness: with min 2 an empty line after one accepted line was
\* rejected, and the empty line after the second one ended the prompt
C27_Witness ==
    /\ kind = "multi_input"
    /\ min_lines = 2
    /\ entry = "interact"
    /\ reads = <<"x", "", "7", "">>
    /\ result = <<"Ok", <<"x", "7">>>>

\* C28: in multi-line input the prompt is not reading once the number of
\* accepted lines equals max, and a returned sequence never has more than
\* max elements.
C28_NeverMoreThanMax ==
    (kind = "multi_input") =>
        /\ pc = "active" => Len(accepted) # max_lines
        /\ Submitted => Len(result[2]) <= max_lines

\* C29: interact() never changes the configuration of a list prompt, every
\* configured option stays inactive, a second interact() starts from the
\* state a first one starts from, and when it has handled the same keys as
\* the first one, on a terminal of the same size and without an I/O error
\* in either, it returns the same result.
C29_ConfigUnchangedRepeatable ==
    /\ [][cfgVars' = cfgVars]_vars
    /\ [](/\ \A i \in 1..Len(options) : ~options[i].active
          /\ (IsSome(first) /\ pc = "active" /\ keys = <<>>) =>
                /\ kind = "multi_select" => opts = options
                /\ idx = 0
                /\ less_idx = 0
          /\ (/\ IsSome(first)
              /\ pc = "done"
              /\ keys = Unwrap(first).keys
              /\ term = Unwrap(first).term
              /\ ~Failed("IoError")
              /\ ~(/\ Unwrap(first).result[1] = "Err"
                    /\ Unwrap(first).result[2] = "IoError")) =>
                result = Unwrap(first).result)

\* C29 witness: a second multi-select interaction has handled Space, Down
\* and Enter as the first one did and returned one value
C29_Witness ==
    /\ kind = "multi_select"
    /\ IsSome(first)
    /\ Submitted
    /\ keys = <<"Space", "Down", "Enter">>
    /\ Unwrap(first).keys = keys
    /\ Len(result[2]) = 1
    /\ result = Unwrap(first).result

\* the first list row of a frame: below the bar and the header
ListTop == 2
\* the row of the terminal that shows list row k of the running prompt
ListRow(T, k) == T.org + ListTop + k

\* the focused and the unfocused form of option i of the running prompt
FocusForm(i) ==
    IF kind = "select" THEN SelectFocusCell(options, i)
    ELSE MultiSelectFocusCell(opts, i)
UnfocusForm(i) ==
    IF kind = "select" THEN SelectUnfocusCell(options, i)
    ELSE MultiSelectUnfocusCell(opts, i)

\* the rows of the terminal that show an option in its focused form
FocusedRows ==
    {r \in Rows :
        tty.scr[r][1] = "opt" /\ tty.scr[r][Len(tty.scr[r])] = "focus"}

\* C30: in non-paged select and multi-select an Up or Down step changes no
\* row but the row of the old focus, which then shows that option in its
\* unfocused form, and the row of the new focus, which shows it in its
\* focused form; in every state of the key loop exactly one row is in
\* focused form, the list row of focus_index.
C30_TwoRowsPerStep ==
    /\ [][(/\ kind \in ListKinds
           /\ pc = "active"
           /\ pc' = "active"
           /\ ~IsSome(is_less)
           /\ keys' # keys
           /\ last'.key \in {"Up", "Down"}) =>
            /\ \A r \in Rows :
                tty'.scr[r] # tty.scr[r] => r \in {ListRow(tty, idx), ListRow(tty, idx')}
            /\ tty'.scr[ListRow(tty, idx')] = FocusForm(idx')
            /\ idx' # idx => tty'.scr[ListRow(tty, idx)] = UnfocusForm(idx)]_vars
    /\ []((kind \in ListKinds /\ pc = "active" /\ ~IsSome(is_less)) =>
            FocusedRows = {ListRow(tty, idx)})

\* C31: in every paged state of the key loop the terminal shows, below the
\* bar and the header, the window_size window rows and the progress line:
\* window row k shows option focus_index - window_offset + k, the row
\* window_offset in focused form and every other one in unfocused form,
\* the progress line reads (focus_index + 1)/len, and the rows around them
\* are as the initial frame left them (on a terminal that holds the frame).
C31_PagedFrame ==
    (kind \in ListKinds /\ Paged /\ Roomy) =>
        /\ \A k \in 0..(WinSize - 1) :
            Row(ListTop + k) =
                (IF k = less_idx THEN FocusForm(idx)
                 ELSE UnfocusForm(idx - less_idx + k))
        /\ Row(ListTop + WinSize) = ProgressCell(idx, OptLen)
        /\ Row(0) = <<"bar">>
        /\ Row(1) = <<"header", "STEP_ACTIVE">>
        /\ Row(ListTop + WinSize + 1) = <<"end">>
        /\ \A r \in Rows :
            /\ r < tty.org => tty.scr[r] = <<"out">>
            /\ r > tty.org + ListTop + WinSize + 1 => tty.scr[r] = <<"blank">>

\* C31 witness: a paged multi-select with a toggled option in the window
\* went down to the fourth option with the focus on the second window row
C31_Witness ==
    /\ kind = "multi_select"
    /\ Paged
    /\ WinSize = 3
    /\ idx = 3
    /\ less_idx = 1
    /\ last.key = "Down"
    /\ opts[3].active
    /\ Roomy
    /\ tty.org > 0
    /\ Row(ListTop) = MultiSelectUnfocusCell(opts, 2)
    /\ Row(ListTop + 1) = MultiSelectFocusCell(opts, 3)

\* the terminal shows the collapsed final frame with header marker `marker`:
\* bar, header, one answer line on the first list row, nothing below it,
\* and the cursor on the row below the answer line
FinalFrame(marker) ==
    /\ Row(0) = <<"bar">>
    /\ Row(1) = <<"header", marker>>
    /\ Row(ListTop)[1] = "answer"
    /\ \A r \in Rows : r > ListRow(tty, 0) => tty.scr[r] = <<"blank">>
    /\ tty.cur = ListRow(tty, 1)

\* select or multi-select has painted its cancel frame: Ctrl-C was read and
\* raw mode was left
CancelPainted ==
    /\ kind \in ListKinds
    /\ pc \in {"done", "panicked"}
    /\ last.key = "CtrlC"
    /\ ~raw

\* C32: when select or multi-select ends on Enter or on Ctrl-C, paged or
\* not, the terminal shows the header with the submit or cancel marker on
\* the message row, a single answer line on the first list row, every row
\* below it (list rows, progress row, bottom bar) cleared, and the cursor
\* on the row directly below the answer line.
C32_FinalFrame ==
    /\ (kind \in ListKinds /\ Submitted) => FinalFrame("STEP_SUBMIT")
    /\ CancelPainted => FinalFrame("STEP_CANCEL")

\* C32 for lists of two or more options on a terminal that holds the frame
C32_FinalFrameFromTwo ==
    (Len(options) >= 2 /\ Roomy) => C32_FinalFrame

\* the multi-line input waits for a line
Reading == kind = "multi_input" /\ pc = "active"

\* the terminal shows the frame of a multi-line input with k accepted
\* lines: bar, header, the k accepted rows, the input row and the bottom
\* bar, nothing below, and the cursor on the input row
LinesFrame(k) ==
    /\ tty.org + k + 3 \in DOMAIN tty.scr
    /\ Row(0) = <<"bar">>
    /\ Row(1) = <<"header", IF is_val THEN "STEP_ERROR" ELSE "STEP_ACTIVE">>
    /\ \A i \in 1..k : Row(1 + i) = <<"bar", Shown(entry, accepted[i])>>
    /\ Row(k + 2)[1] = "bar"
    /\ Row(k + 3)[1] = "end"
    /\ \A r \in Rows : r > tty.org + k + 3 => tty.scr[r] = <<"blank">>
    /\ tty.cur = tty.org + k + 2

\* C33: whenever the multi-line input is about to read a line with k lines
\* accepted, the frame is the header, the k accepted rows, the input row
\* and the bottom bar, with the cursor on the input row directly below the
\* k-th accepted row; between two reads the number of accepted rows, and
\* with it the frame, stays or grows by exactly one and never shrinks (the
\* rows are read on a terminal that holds the frame).
C33_FrameGrows ==
    /\ [](Reading => tty.ok)
    /\ []((Reading /\ LinesRoomy) => LinesFrame(Len(accepted)))
    /\ [][(Reading /\ Reading') =>
            /\ Len(accepted') \in {Len(accepted), Len(accepted) + 1}
            /\ SubSeq(accepted', 1, Len(accepted)) = accepted
            /\ LinesRoomy' =>
                    tty'.cur - tty.cur = Len(accepted') - Len(accepted)]_vars

C33_Witness ==
    /\ Reading
    /\ LinesRoomy
    /\ Len(accepted) = 3
    /\ Len(reads) = 4
    /\ is_val = FALSE
    /\ tty.cur = tty.org + 5
    /\ Row(4) = <<"bar", Shown(entry, accepted[3])>>
    /\ Row(6) = <<"end">>

\* a builder call that would set the second of less_amt and less_max does
\* not go through: a step out of a state with one of them set leaves the
\* other unset, and a step changes at most one of them
LessExclusiveStep ==
    /\ IsSome(less_max) => less_amt' = less_amt
    /\ IsSome(less_amt) => less_max' = less_max
    /\ less_amt' = less_amt \/ less_max' = less_max

\* C34: on Select, a call of less_amt after less_max, or of less_max
\* after less_amt, always panics and sets nothing, so at most one of
\* less_amt and less_max is set in every state, in particular at interact().
C34_SelectLessExclusive ==
    /\ [](kind = "select" => (less_amt = None \/ less_max = None))
    /\ [][kind = "select" => LessExclusiveStep]_vars
    /\ [][(kind = "select" /\ pc = "config" /\ pc' = "panicked") =>
            (less_amt' = less_amt /\ less_max' = less_max)]_vars
    /\ []((kind = "select" /\ pc = "config" /\ IsSome(less_max)) =>
            /\ ENABLED SelectLessAmt
            /\ ~ENABLED (SelectLessAmt /\ pc' = "config"))
    /\ []((kind = "select" /\ pc = "config" /\ IsSome(less_amt)) =>
            /\ ENABLED SelectLessMax
            /\ ~ENABLED (SelectLessMax /\ pc' = "config"))

C34_Witness ==
    /\ kind = "select"
    /\ pc = "panicked"
    /\ less_max = Some(2)
    /\ less_amt = None
    /\ less
    /\ Untouched

\* C35: on MultiSelect, a call of less_amt after less_max, or of less_max
\* after less_amt, always panics and sets nothing, so at most one of
\* less_amt and less_max is ever set.
C35_MultiSelectLessExclusive ==
    /\ [](kind = "multi_select" => (less_amt = None \/ less_max = None))
    /\ [][kind = "multi_select" => LessExclusiveStep]_vars
    /\ []((kind = "multi_select" /\ pc = "config" /\ IsSome(less_max)) =>
            ~ENABLED (MultiSelectLessAmt /\ pc' = "config"))
    /\ []((kind = "multi_select" /\ pc = "config" /\ IsSome(less_amt)) =>
            ~ENABLED (MultiSelectLessMax /\ pc' = "config"))

\* select or multi-select is in its key loop
InKeyLoop == kind \in ListKinds /\ pc = "active"

\* the list row the cursor must be on: the window offset when paged, the
\* focus index otherwise
TrackedRow == IF IsSome(is_less) THEN less_idx ELSE idx

\* C36: after the initial frame and after every navigation or toggle step
\* of select and multi-select the cursor's row offset from the first list
\* row is focus_index (not paged) or window_offset (paged), for every list
\* length from one on.
C36_CursorTracksFocus ==
    InKeyLoop => tty.cur = ListRow(tty, TrackedRow)

\* C36 for lists of two or more options on a terminal that holds the frame
C36_CursorTracksFocusFromTwo ==
    (Len(options) >= 2 /\ Roomy) => C36_CursorTracksFocus

\* a step that leaves the pair as it is
StayAt(i, lidx) == [idx |-> i, less_idx |-> lidx, ok |-> TRUE]

\* what the key arms of Select::interact make of (idx, less_idx): w is the
\* Option returned by mk_less, max the number of options
SelectPair(key, w, max, i, lidx) ==
    CASE key = "Up" ->
            IF IsSome(w) THEN SelectUpLess(Unwrap(w), max, i, lidx)
            ELSE [idx |-> SelectUp(max, i), less_idx |-> lidx, ok |-> TRUE]
      [] key = "Down" ->
            IF IsSome(w) THEN SelectDownLess(Unwrap(w), max, i, lidx)
            ELSE [idx |-> SelectDown(max, i), less_idx |-> lidx, ok |-> TRUE]
      [] key = "PageDown" ->
            IF IsSome(w) THEN SelectPageDown(Unwrap(w), max, i, lidx)
            ELSE StayAt(i, lidx)
      [] key = "PageUp" ->
            IF IsSome(w) THEN SelectPageUp(Unwrap(w), max, i, lidx)
            ELSE StayAt(i, lidx)
      [] OTHER -> StayAt(i, lidx)

\* what the key arms of MultiSelect::interact make of (idx, less_idx)
MultiSelectPair(key, w, max, i, lidx) ==
    CASE key = "Up" ->
            IF IsSome(w) THEN MultiSelectUpLess(Unwrap(w), max, i, lidx)
            ELSE [idx |-> MultiSelectUp(max, i), less_idx |-> lidx, ok |-> TRUE]
      [] key = "Down" ->
            IF IsSome(w) THEN MultiSelectDownLess(Unwrap(w), max, i, lidx)
            ELSE [idx |-> MultiSelectDown(max, i), less_idx |-> lidx, ok |-> TRUE]
      [] key = "PageDown" ->
            IF IsSome(w) THEN MultiSelectPageDown(Unwrap(w), max, i, lidx)
            ELSE StayAt(i, lidx)
      [] key = "PageUp" ->
            IF IsSome(w) THEN MultiSelectPageUp(Unwrap(w), max, i, lidx)
            ELSE StayAt(i, lidx)
      [] OTHER -> StayAt(i, lidx)

\* C37: select and multi-select navigate alike. Both start the key loop at
\* (focus_index, window_offset) = (0, 0) with the window either mk_less
\* derives from the same paging configuration and terminal; from every
\* state of either key loop, the pair after a key is the one select's arms
\* compute and the one multi-select's arms compute, which are equal, so
\* the same keys lead both prompts through the same pairs; Space (and any
\* other key) leaves the pair unchanged.
C37_SameNavigation ==
    /\ [][(kind \in ListKinds /\ pc = "config" /\ pc' = "active") =>
            /\ idx' = 0
            /\ less_idx' = 0
            /\ is_less' = SelectMkLess(less, less_amt, less_max, OptLen, term')
            /\ is_less' = MultiSelectMkLess(less, less_amt, less_max, OptLen, term')]_vars
    /\ [][(InKeyLoop /\ pc' = "active") =>
            LET a == SelectPair(last'.key, is_less, OptLen, idx, less_idx)
                b == MultiSelectPair(last'.key, is_less, OptLen, idx, less_idx)
            IN /\ a = b
               /\ a.ok
               /\ idx' = a.idx
               /\ less_idx' = a.less_idx
               /\ last'.key = "Space" => (idx' = idx /\ less_idx' = less_idx)]_vars

C37_Witness ==
    /\ kind = "multi_select"
    /\ pc = "active"
    /\ IsSome(is_less)
    /\ last.key = "PageUp"
    /\ last.idx > WinSize
    /\ last.less_idx = WinSize - 1
    /\ idx = last.idx - WinSize
    /\ less_idx = idx
    /\ less_idx < last.less_idx
    /\ SelectPageUp(WinSize, OptLen, last.idx, last.less_idx).less_idx = less_idx

\* the step handles Ctrl-C (Ctrl-D in confirm) in select or confirm
CtrlCStep ==
    /\ kind \in {"select", "confirm"}
    /\ pc = "active"
    /\ last'.key = "CtrlC"

\* the cancel callback was invoked by the step
CallbackInvoked == cancel_calls' # cancel_calls

\* C38: on Ctrl-C in select and confirm, leaving raw mode (in confirm after
\* showing the cursor) comes before the cancel frame and the frame before
\* the callback: when leaving raw mode fails the I/O error is returned
\* with raw mode still on, nothing painted and the callback not invoked;
\* whenever the step writes to the terminal raw mode is off; whenever the
\* callback was invoked raw mode is off, the cancel frame is painted and
\* confirm's cursor is shown; a configured callback is invoked exactly
\* when Cancelled is returned.
C38_RawModeLeftFirst ==
    /\ [][CtrlCStep =>
            \/ /\ pc' = "done"
               /\ result' = <<"Err", "IoError">>
               /\ raw /\ raw'
               /\ tty' = tty
               /\ ~CallbackInvoked
               /\ kind = "confirm" => hidden' = ~stdout_ok
            \/ /\ pc' = "panicked"
               /\ ~stdout_ok
               /\ ~raw'
               /\ ~CallbackInvoked
            \/ /\ pc' = "done"
               /\ result' = <<"Err", "Cancelled">>
               /\ ~raw'
               /\ CallbackInvoked = cancel]_vars
    /\ [][(CtrlCStep /\ tty' # tty) => ~raw']_vars
    /\ [][(CtrlCStep /\ CallbackInvoked) =>
            /\ ~raw'
            /\ tty'.ok
            /\ CancelFramePainted'
            /\ kind = "confirm" => ~hidden']_vars

C38_Witness ==
    /\ kind = "select"
    /\ Failed("IoError")
    /\ last.key = "CtrlC"
    /\ cancel
    /\ cancel_calls = 0
    /\ raw
    /\ Row(1) = <<"header", "STEP_ACTIVE">>

\* the step is a read of the line reader that returns an error
ReadFails ==
    /\ kind \in {"input", "multi_input"}
    /\ pc = "active"
    /\ reads' = Append(reads, ReadFailed)

\* C39: in text input and multi-line input every read of the line reader
\* that returns an error ends the prompt as Cancelled: the cancel frame is
\* painted (in multi-line input on a terminal that holds the frame, with
\* the cancel header on the message row),
\* a configured callback is invoked once, and Err(Cancelled) is returned,
\* which carries none of the lines accepted so far; no other error is
\* returned after a failed read.
C39_ReadErrorCancels ==
    /\ [][ReadFails =>
            /\ pc' = "done"
            /\ result' = <<"Err", "Cancelled">>
            /\ cancel_calls' = cancel_calls + (IF cancel THEN 1 ELSE 0)
            /\ tty'.ok
            /\ (kind = "input" \/ LinesRoomy') => CancelFramePainted'
            /\ (kind = "multi_input" /\ LinesRoomy') =>
                    tty'.scr[tty'.org + 1] = <<"header", "STEP_CANCEL">>]_vars
    /\ []((kind \in {"input", "multi_input"} /\ LastEventCancels) =>
            (Failed("Cancelled") /\ ~Submitted))

C39_Witness ==
    /\ kind = "multi_input"
    /\ Len(accepted) = 2
    /\ reads[Len(reads)] = ReadFailed
    /\ cancel
    /\ cancel_calls = 1
    /\ Failed("Cancelled")
    /\ Row(1) = <<"header", "STEP_CANCEL">>

\* an option row has been painted, or painting it has panicked
RowPainted == kind \in ListKinds /\ pc \in {"active", "panicked"}

\* columns an option row takes besides its label
RowPad(o, form) ==
    (IF kind = "select" THEN SELECT_PAD ELSE MULTI_SELECT_PAD + OneThree(unicode))
    + (IF form = "focus" THEN HintLen(o) ELSE 0)

\* C40: computing the label's truncation width never goes below zero, for
\* every width the size probe reports and every hint length: painting an
\* option row never panics, and the painted row fits the reported width: it
\* is one row of the terminal, the one the cursor was on.
C40_TruncWidthNeverUnderflows ==
    RowPainted =>
        /\ pc # "panicked"
        /\ tty.ok
        /\ IsSome(columns) =>
                /\ tty.cur = tty.org
                /\ tty.scr[tty.cur][1] = "opt"
                /\ Cols(tty.scr[tty.cur]) <= Unwrap(columns)

\* C40 on terminals at least as wide as what the row holds besides its label
C40_TruncWidthFromPad ==
    (/\ RowPainted
     /\ IsSome(columns)
     /\ Unwrap(columns) >= RowPad(options[1], "focus")) =>
        C40_TruncWidthNeverUnderflows

====
